---- MODULE Spec2Model ----
(***************************************************************************)
(* OpenLens background service worker: the tool-call loop, the permission  *)
(* guard (ensurePermission), the stored grant list (lib/permissions.ts)    *)
(* and the session ledger, as a state machine.                             *)
(*                                                                         *)
(* Spec      one intent: TOOL_CALL_TASK drives runToolCallLoop with        *)
(*           executeToolCall and ensurePermission, from an empty grant     *)
(*           list, under the provider configured before the intent.        *)
(* SpecPerm  the operations of lib/permissions.ts applied one after the    *)
(*           other to the stored grant list, with tab events and a clock.  *)
(* SpecPlan  plan mode: CREATE_PLAN, EXECUTE_STEP with executeStep and     *)
(*           ensurePermission, CHECK_CROSS_ORIGIN, and the tab navigating. *)
(* SpecChat  llmChat's ollama branch: the request with tool schemas, the   *)
(*           retry after a 400 and the parse of the plain-text reply.      *)
(* SpecGuard SpecPlan with the clock advancing between the steps of the    *)
(*           first plan, so that session and site grants expire.           *)
(* SpecGen   generatePlan: the race of llmChat against the 20 s timer, the  *)
(*           parse of the reply and the fallback plan.                     *)
(* SpecLive  Spec with the awaits of the tool loop settling, except the    *)
(*           tab's answer to the pre-read request.                         *)
(* SpecLedger the session ledgers of the background and of the event bus.  *)
(* SpecMcp   the MCP registry's handlers beside a running tool loop.        *)
(* SpecAuto  one plan with steps on either tab, and a provider switch, a   *)
(*           clock tick or a closed tab after the first step.              *)
(* SpecRace  the operations of lib/permissions.ts, two at a time, each a   *)
(*           load and a save with the other's steps in between.           *)
(* SpecTwo   SpecPlan with a TOOL_CALL_TASK message arriving while a plan  *)
(*           step is suspended at an await.                                *)
(***************************************************************************)
EXTENDS Integers, Sequences, FiniteSets, TLC

\* ------------------------------------------------------------------ bounds
\* Replies of one task that carry two tool calls instead of one.
MaxExtraCalls == 1
\* Clock ticks in one behaviour of SpecPerm.
MaxTicks == 1
\* Distinct (type, origin, tabId) triples in the stored list, in SpecPerm.
MaxGrants == 2
\* Intents, step executions and navigations in one behaviour of SpecPlan.
MaxIntents == 2
MaxExecs == 2
MaxNavs == 1
\* Rounds of two overlapping operations on the stored list, in SpecRace.
MaxRounds == 2
\* Handler runs and loop steps in one behaviour of SpecMcp.
MaxMcpOps == 4
\* Calls of the event bus in one behaviour of SpecLedger.
MaxBusOps == 4

\* ------------------------------------------------------- program constants
maxIterations == 5
ThirtyMinutes == 30 * 60 * 1000
\* one clock tick of the model: 31 minutes, in milliseconds
TickMs == 31 * 60 * 1000
\* expiresAt of a page-scoped grant (null)
Null == -1

Sentinel == "(Reached maximum tool call iterations)"
NoError == "null"

Providers == {"ollama", "openai"}
PermTypes == {"page_read", "page_action", "data_send"}
Scopes == {"page", "site", "session"}
Tabs == {1, 2}

\* hostname of the URL shown in a tab
TabOrigin(tabId) == IF tabId = 1 THEN "a.example" ELSE "b.example"

Origins == {TabOrigin(t) : t \in Tabs}

\* ------------------------------------------------------------ tool registry
PAGE_TOOLS ==
  [ read_page     |-> [requiredPermission |-> "page_read",   isWriteAction |-> FALSE],
    extract_data  |-> [requiredPermission |-> "page_read",   isWriteAction |-> FALSE],
    find_on_page  |-> [requiredPermission |-> "page_read",   isWriteAction |-> FALSE],
    navigate      |-> [requiredPermission |-> "page_action", isWriteAction |-> TRUE],
    fill_form     |-> [requiredPermission |-> "page_action", isWriteAction |-> TRUE],
    click_element |-> [requiredPermission |-> "page_action", isWriteAction |-> TRUE] ]

IsBuiltIn(toolName) == toolName \in DOMAIN PAGE_TOOLS

\* the message executeToolCall routes a built-in tool to
RouteOf(toolName) ==
  CASE toolName \in {"read_page", "extract_data"} -> "READ_PAGE"
    [] toolName = "find_on_page"  -> "FIND_ON_PAGE"
    [] toolName = "click_element" -> "CLICK_ELEMENT"
    [] toolName = "fill_form"     -> "FILL_FORM"
    [] toolName = "navigate"      -> "TABS_CREATE"
    [] OTHER -> "NONE"

\* the registry of MCP servers kept in storage
McpRegistry ==
  << [id |-> "srv1", enabled |-> TRUE,  tools |-> {"mcp_echo", "read_page"}],
     [id |-> "srv2", enabled |-> FALSE, tools |-> {"mcp_off"}] >>

McpServerOf_anyServer(servers, toolName) ==
  LET hits == {k \in 1..Len(servers) : toolName \in servers[k].tools}
  IN IF hits = {} THEN 0 ELSE CHOOSE k \in hits : \A j \in hits : k <= j

\* executeToolCall: the first enabled server that lists the tool, 0 if none
McpServerOf(servers, toolName) ==
  LET hits == {k \in 1..Len(servers) : servers[k].enabled /\ toolName \in servers[k].tools}
  IN IF hits = {} THEN 0 ELSE CHOOSE k \in hits : \A j \in hits : k <= j

\* ------------------------------------------------------ lib/permissions.ts
Covers_sessionNever(p, type, origin, tabId, t) ==
  /\ p.type = type
  /\ ~(p.expiresAt # Null /\ p.expiresAt # 0 /\ p.expiresAt < t)
  /\ CASE p.scope = "page"    -> p.tabId = tabId /\ p.origin = origin
       [] p.scope = "site"    -> p.origin = origin
       [] OTHER -> FALSE

Covers_sessionSameTab(p, type, origin, tabId, t) ==
  /\ p.type = type
  /\ ~(p.expiresAt # Null /\ p.expiresAt # 0 /\ p.expiresAt < t)
  /\ CASE p.scope = "page"    -> p.tabId = tabId /\ p.origin = origin
       [] p.scope = "site"    -> p.origin = origin
       [] p.scope = "session" -> p.tabId = tabId
       [] OTHER -> FALSE

Covers_ignoreExpiry(p, type, origin, tabId, t) ==
  /\ p.type = type
  /\ CASE p.scope = "page"    -> p.tabId = tabId /\ p.origin = origin
       [] p.scope = "site"    -> p.origin = origin
       [] p.scope = "session" -> TRUE
       [] OTHER -> FALSE

\* the predicate of checkPermission's find
Covers(p, type, origin, tabId, t) ==
  /\ p.type = type
  /\ ~(p.expiresAt # Null /\ p.expiresAt # 0 /\ p.expiresAt < t)
  /\ CASE p.scope = "page"    -> p.tabId = tabId /\ p.origin = origin
       [] p.scope = "site"    -> p.origin = origin
       [] p.scope = "session" -> TRUE
       [] OTHER -> FALSE

NoGrant == [type |-> "none"]

checkPermission(perms, type, origin, tabId, t) ==
  LET hits == {k \in 1..Len(perms) : Covers(perms[k], type, origin, tabId, t)}
  IN IF hits = {} THEN NoGrant
     ELSE perms[CHOOSE k \in hits : \A j \in hits : k <= j]

\* getActivePermissions, lines 98-107; tabId 0 stands for undefined
getActivePermissions(perms, tabId, t) ==
  SelectSeq(perms, LAMBDA p :
    /\ ~(p.expiresAt # Null /\ p.expiresAt # 0 /\ p.expiresAt < t)
    /\ ~(tabId # 0 /\ p.tabId # tabId))

ExpiresAt_site_null(scope, t) == IF scope = "session" THEN t + ThirtyMinutes ELSE Null

ExpiresAt(scope, t) == IF scope = "page" THEN Null ELSE t + ThirtyMinutes

SameTriple(p, type, origin, tabId) ==
  p.type = type /\ p.origin = origin /\ p.tabId = tabId

NewGrant(type, scope, origin, tabId, t) ==
  [type |-> type, scope |-> scope, origin |-> origin, tabId |-> tabId,
   grantedAt |-> t, expiresAt |-> ExpiresAt(scope, t)]

grantPermission_nofilter(perms, type, scope, origin, tabId, t) ==
  Append(perms, NewGrant(type, scope, origin, tabId, t))

\* the list grantPermission saves, from the list it loaded
grantPermission(perms, type, scope, origin, tabId, t) ==
  Append(SelectSeq(perms, LAMBDA p : ~SameTriple(p, type, origin, tabId)),
         NewGrant(type, scope, origin, tabId, t))

revokePermission(perms, type, origin, tabId) ==
  SelectSeq(perms, LAMBDA p : ~SameTriple(p, type, origin, tabId))

revokeAllForTab(perms, tabId) ==
  SelectSeq(perms, LAMBDA p : p.tabId # tabId)

revokePagePermissions_anyScope(perms, tabId) ==
  SelectSeq(perms, LAMBDA p : p.tabId # tabId)

revokePagePermissions(perms, tabId) ==
  SelectSeq(perms, LAMBDA p : ~(p.scope = "page" /\ p.tabId = tabId))


\* ------------------------------------------------------------------- state
VARIABLES
  llmConfig,      \* [provider]: the configured LLM backend
  permissions,    \* the grant list under storage key 'permissions'
  now,            \* Date.now()
  sessionState,   \* [sessionId, totalTokens, contextUsed, dataEntries, auditEvents]
  toolCallState,  \* [running, calls, finalAnswer, error]
  loop,           \* runToolCallLoop's position and locals
  ep,             \* the ensurePermission call in flight
  messages,       \* the conversation runToolCallLoop accumulates
  ensured,        \* history: capability types ensurePermission returned true for, this task
  dispatched,     \* history: tool dispatches of this task
  entryGuard,     \* history: for each DataEntry, what the guard answered for its tool
  chats,          \* history: llmChat calls of this task
  epLog,          \* history: completed ensurePermission calls of this task
  provenance,     \* history: how the stored grant of each triple was created
  lastOp,         \* history: the last operation on the stored list: a grant, a tab event
  tabUrl,         \* hostname of the page each tab shows
  currentPlan,    \* the plan of plan mode: [steps, url], or NoPlan
  exec,           \* CREATE_PLAN's and executeStep's position and locals
  budget,         \* history: intents, step executions and navigations so far
  warning,        \* the answer to CHECK_CROSS_ORIGIN since the plan last changed
  gw,             \* llmChat's ollama branch: position, requests sent, result
  gen,            \* generatePlan: position, the race of lines 477-478, the plan returned
  io,             \* lib/permissions.ts: the operations in flight, each with the list it loaded
  mcp,            \* the MCP registry in storage, the tool loop beside it, the requests sent
  bus             \* modules/event-bus.ts: its session `state`; history: the calls so far, the last one

vars == << llmConfig, permissions, now, sessionState, toolCallState, loop, ep, messages,
           ensured, dispatched, entryGuard, chats, epLog, provenance, lastOp,
           tabUrl, currentPlan, exec, budget, warning, gw, gen, io, mcp, bus >>

planVars == << tabUrl, currentPlan, exec, budget, warning >>

loopVars == << sessionState, toolCallState, loop, ep, messages,
               ensured, dispatched, entryGuard, chats, epLog >>

NoCall == [name |-> "", url |-> FALSE]
NoEp == [type |-> "none", origin |-> "", tabId |-> 0, isLocal |-> FALSE]
IdleLoop == [pc |-> "idle", tabId |-> 0, i |-> 0, queue |-> << >>, tool |-> NoCall,
             pageContext |-> FALSE, via |-> "", guard |-> "none", result |-> "",
             extra |-> 0]

Triple(type, origin, tabId) == << type, origin, tabId >>

\* ------------------------------------------------------------ audit events
TaskStartedEvent(provider) ==
  [type |-> "task_started", origin |-> "openlens",
   detail |-> [mode |-> "tool_call", provider |-> provider]]

AutoGrantedEvent_notAuto(permType, origin) ==
  [type |-> "permission_granted", origin |-> origin,
   detail |-> [permType |-> permType, scope |-> "session", autoGranted |-> FALSE,
               userAction |-> "approved", reason |-> ""]]

AutoGrantedEvent(permType, origin) ==
  [type |-> "permission_granted", origin |-> origin,
   detail |-> [permType |-> permType, scope |-> "session", autoGranted |-> TRUE,
               userAction |-> "auto", reason |-> "Local processing"]]

RequestedEvent_noType(permType, origin) ==
  [type |-> "permission_requested", origin |-> origin,
   detail |-> [permType |-> ""]]

RequestedEvent(permType, origin) ==
  [type |-> "permission_requested", origin |-> origin,
   detail |-> [permType |-> permType]]

GrantedEvent(permType, scope, origin) ==
  [type |-> "permission_granted", origin |-> origin,
   detail |-> [permType |-> permType, scope |-> scope, autoGranted |-> FALSE,
               userAction |-> "approved", reason |-> ""]]

DeniedEvent(permType, origin) ==
  [type |-> "permission_denied", origin |-> origin,
   detail |-> [permType |-> permType, userAction |-> "denied"]]

\* detail.reason of the fallback grant
DialogUnavailable == "Dialog unavailable, local provider"

FallbackGrantedEvent_noReason(permType, origin) ==
  [type |-> "permission_granted", origin |-> origin,
   detail |-> [permType |-> permType, scope |-> "page", autoGranted |-> FALSE,
               userAction |-> "none", reason |-> ""]]

FallbackGrantedEvent(permType, origin) ==
  [type |-> "permission_granted", origin |-> origin,
   detail |-> [permType |-> permType, scope |-> "page", autoGranted |-> TRUE,
               userAction |-> "none", reason |-> DialogUnavailable]]

ToolCallStartEvent_sameIndex(toolName, i) ==
  [type |-> "tool_call_start", origin |-> "openlens",
   detail |-> [tool |-> toolName, iteration |-> i]]

ToolCallStartEvent(toolName, i) ==
  [type |-> "tool_call_start", origin |-> "openlens",
   detail |-> [tool |-> toolName, iteration |-> i + 1]]

ToolCallResultEvent(toolName, success) ==
  [type |-> "tool_call_result", origin |-> "openlens",
   detail |-> [tool |-> toolName, success |-> success]]

LlmPromptEvent(mode, iterations) ==
  [type |-> "llm_prompt", origin |-> "openlens",
   detail |-> [mode |-> mode, iterations |-> iterations]]

addAuditEvent_prepend(s, event) == [s EXCEPT !.auditEvents = << event >> \o @]

\* addAuditEvent and addDataEntry, on a session record
addAuditEvent(s, event) == [s EXCEPT !.auditEvents = Append(@, event)]

addDataEntry(s, entry) ==
  [s EXCEPT !.dataEntries = Append(@, entry),
            !.totalTokens = @ + entry.tokenCount,
            !.contextUsed = @ + entry.tokenCount]


\* ---------------------------------------------------------------- llmChat
\* reply texts, by what the code reads of them: length and leading marker
Contents == {"", "Yes, it is", "Page is ok.", "{\"tool\": \"read_page\"}"}

ContentLength(c) ==
  CASE c = "" -> 0
    [] c = "Yes, it is" -> 10
    [] c = "Page is ok." -> 11
    [] OTHER -> 21

StartsWithMarker(c) == c = "{\"tool\": \"read_page\"}"

\* tool calls a reply may carry: name and whether args.url is set
ReplyCall(name, url) == [name |-> name, url |-> url]

\* the replies with one call, and those with two: the same tool twice, and a
\* navigate without url followed by a read
ReplyCalls ==
  { ReplyCall("read_page", FALSE), ReplyCall("navigate", TRUE),
    ReplyCall("mcp_echo", FALSE), ReplyCall("mcp_off", FALSE),
    ReplyCall("bogus", FALSE) }

LlmError(provider) ==
  IF provider = "ollama" THEN "Error: Ollama error: 500" ELSE "Error: OpenAI error: 500"

\* what llmChat can settle to: only the ollama branch passes tools on and returns
\* toolCalls; the tool loop reads nothing of a reply's text, and a reply carries
\* one call or, within MaxExtraCalls, two
LlmReplies(provider, withTools, extra) ==
  { [kind |-> "throw", content |-> "", toolCalls |-> << >>] }
    \cup { [kind |-> "content", content |-> c, toolCalls |-> << >>] :
             c \in (IF withTools THEN {"", "Page is ok."} ELSE Contents) }
    \cup (IF provider = "ollama" /\ withTools
          THEN { [kind |-> "toolCalls", content |-> "", toolCalls |-> q] :
                   q \in { << c >> : c \in ReplyCalls }
                           \cup (IF extra < MaxExtraCalls
                                 THEN { << ReplyCall("read_page", FALSE),
                                           ReplyCall("read_page", FALSE) >>,
                                        << ReplyCall("navigate", FALSE),
                                           ReplyCall("read_page", FALSE) >> }
                                 ELSE {}) }
          ELSE {})

\* history of an llmChat call, taken when the call is issued
ChatRecord(provider, withTools, withPage) ==
  [provider |-> provider, tools |-> withTools, page |-> withPage,
   dataSend |-> "data_send" \in ensured, reply |-> "pending", ncalls |-> 0]

SettleChat(reply) ==
  [chats EXCEPT ![Len(chats)].reply = reply.kind,
                ![Len(chats)].ncalls = Len(reply.toolCalls)]

\* the direct answer is used: lines 948-951
DirectAccept_inclusive(answer) ==
  answer # "" /\ ~StartsWithMarker(answer) /\ ContentLength(answer) >= 10

DirectAccept(answer) ==
  answer # "" /\ ~StartsWithMarker(answer) /\ ContentLength(answer) > 10

LoopContinues_inclusive(i) == i <= maxIterations

\* the for loop's condition
LoopContinues(i) == i < maxIterations

\* Math.ceil(JSON.stringify(result).length / 4), per result
TokensOf(result) ==
  CASE result = "denied"       -> 11
    [] result = "unknown_tool" -> 12
    [] result = "no_url"       -> 11
    [] result = "navigated"    -> 14
    [] result = "mcp_ok"       -> 10
    [] result = "mcp_error"    -> 16
    [] OTHER                   -> 500

\* ------------------------------------------------- TOOL_CALL_TASK handler
\* messageHandler TOOL_CALL_TASK: session reset, task_started, then runToolCallLoop
\* up to its pre-read request
ToolCallTask(tabId) ==
  /\ sessionState' = addAuditEvent(
        [sessionId |-> now, totalTokens |-> 0, contextUsed |-> 0,
         dataEntries |-> << >>, auditEvents |-> << >>],
        TaskStartedEvent(llmConfig.provider))
  /\ toolCallState' = [running |-> TRUE, calls |-> << >>, finalAnswer |-> "",
                       error |-> NoError]
  /\ loop' = [IdleLoop EXCEPT !.pc = "preread", !.tabId = tabId]
  /\ ep' = NoEp
  /\ messages' = << >>
  /\ ensured' = {}
  /\ dispatched' = {[route |-> "READ_PAGE", tool |-> "read_page", required |-> "page_read",
                     ensured |-> FALSE, preread |-> TRUE]}
  /\ entryGuard' = << >>
  /\ chats' = << >>
  /\ epLog' = {}
  /\ UNCHANGED << planVars, gw, gen, io, mcp, bus, llmConfig, permissions, now, provenance, lastOp >>

Exhausted_noAnswer(tcs) == [tcs EXCEPT !.running = FALSE]

\* runToolCallLoop, lines 1060-1062: the iteration cap is hit
Exhausted(tcs) == [tcs EXCEPT !.finalAnswer = Sentinel, !.running = FALSE]

\* the llmChat call issued when the loop turns to iteration i (or the terminal
\* state after the last one)
EnterIteration(i, tcs, ses) ==
  IF LoopContinues(i)
  THEN /\ loop' = [loop EXCEPT !.pc = "chat", !.i = i, !.queue = << >>, !.tool = NoCall,
                               !.via = llmConfig.provider, !.guard = "none", !.result = ""]
       /\ chats' = Append(chats, ChatRecord(llmConfig.provider, TRUE, loop.pageContext))
       /\ toolCallState' = tcs
       /\ sessionState' = ses
  ELSE /\ loop' = [loop EXCEPT !.pc = "done", !.i = i, !.queue = << >>, !.tool = NoCall,
                               !.guard = "none", !.result = ""]
       /\ chats' = chats
       /\ toolCallState' = Exhausted(tcs)
       /\ sessionState' = ses

\* runToolCallLoop, lines 904-947: the pre-read settles; then the direct-answer
\* chat (snapshot obtained) or the first tool-enabled chat is issued
PreRead ==
  /\ loop.pc = "preread"
  /\ \E outcome \in {"summary", "empty", "reject"} :
       IF outcome = "summary"
       THEN /\ sessionState' = addDataEntry(sessionState,
                 [origin |-> TabOrigin(loop.tabId), originType |-> "web",
                  dataType |-> "page_content", tokenCount |-> TokensOf("ok"),
                  entryMethod |-> "tool_call"])
            /\ entryGuard' = Append(entryGuard,
                 [tool |-> "read_page", declared |-> {"page_read"}, guard |-> "none"])
            /\ toolCallState' = [toolCallState EXCEPT !.calls =
                 Append(@, [toolName |-> "read_page", result |-> "ok", iteration |-> 0])]
            /\ loop' = [loop EXCEPT !.pc = "direct", !.pageContext = TRUE,
                                    !.via = llmConfig.provider]
            /\ chats' = Append(chats, ChatRecord(llmConfig.provider, FALSE, TRUE))
            /\ messages' = << [role |-> "system", about |-> "plain"],
                              [role |-> "user", about |-> "intent"] >>
       ELSE /\ EnterIteration(0, toolCallState, sessionState)
            /\ entryGuard' = entryGuard
            /\ messages' = << [role |-> "system", about |-> "tools"],
                              [role |-> "user", about |-> "intent"] >>
  /\ UNCHANGED << planVars, gw, gen, io, mcp, bus, llmConfig, permissions, now, provenance, lastOp, ep, ensured,
                  dispatched, epLog >>


\* String(err) of a rejected chrome.tabs.sendMessage
DispatchError == "Error: Could not establish connection"

\* the terminal branches of runToolCallLoop
Answered_keepRunning(tcs, answer) == [tcs EXCEPT !.finalAnswer = answer]

Answered(tcs, answer) == [tcs EXCEPT !.finalAnswer = answer, !.running = FALSE]

Errored_withAnswer(tcs, err) == [tcs EXCEPT !.error = err, !.finalAnswer = err,
                                               !.running = FALSE]

Errored(tcs, err) == [tcs EXCEPT !.error = err, !.running = FALSE]

\* runToolCallLoop, lines 947-977: the direct-answer chat settles
DirectReply ==
  /\ loop.pc = "direct"
  /\ \E reply \in LlmReplies(loop.via, FALSE, loop.extra) :
       /\ IF reply.kind = "content" /\ DirectAccept(reply.content)
          THEN /\ toolCallState' = Answered(toolCallState, reply.content)
               /\ sessionState' = addAuditEvent(sessionState,
                                                LlmPromptEvent("direct_answer", 0))
               /\ loop' = [loop EXCEPT !.pc = "done"]
               /\ chats' = SettleChat(reply)
               /\ messages' = messages
          ELSE /\ toolCallState' = toolCallState
               /\ sessionState' = sessionState
               /\ loop' = [loop EXCEPT !.pc = "chat", !.i = 0, !.via = llmConfig.provider]
               /\ chats' = Append(SettleChat(reply),
                                  ChatRecord(llmConfig.provider, TRUE, loop.pageContext))
               /\ messages' = [messages EXCEPT ![1] = [role |-> "system", about |-> "tools"]]
  /\ UNCHANGED << planVars, gw, gen, io, mcp, bus, llmConfig, permissions, now, provenance, lastOp, ep, ensured,
                  dispatched, entryGuard, epLog >>

\* runToolCallLoop, lines 982-985 and 1035-1057: the chat of iteration i settles
ChatReply ==
  /\ loop.pc = "chat"
  /\ \E reply \in LlmReplies(loop.via, TRUE, loop.extra) :
       /\ chats' = SettleChat(reply)
       /\ CASE reply.kind = "throw" ->
                 /\ toolCallState' = Errored(toolCallState, LlmError(loop.via))
                 /\ sessionState' = sessionState
                 /\ loop' = [loop EXCEPT !.pc = "done"]
            [] reply.kind = "content" ->
                 /\ toolCallState' = Answered(toolCallState, reply.content)
                 /\ sessionState' = addAuditEvent(sessionState,
                                                  LlmPromptEvent("tool_call", loop.i + 1))
                 /\ loop' = [loop EXCEPT !.pc = "done"]
            [] OTHER ->
                 /\ toolCallState' = toolCallState
                 /\ sessionState' = sessionState
                 /\ loop' = [loop EXCEPT !.pc = "call", !.queue = reply.toolCalls,
                               !.extra = @ + (Len(reply.toolCalls) - 1)]
  /\ UNCHANGED << planVars, gw, gen, io, mcp, bus, llmConfig, permissions, now, provenance, lastOp, ep, messages,
                  ensured, dispatched, entryGuard, epLog >>

\* runToolCallLoop lines 986-998 with executeToolCall lines 827-843: the next
\* tool call of the reply starts
StartCall ==
  /\ loop.pc = "call"
  /\ LET tc == Head(loop.queue) IN
       /\ sessionState' = addAuditEvent(sessionState, ToolCallStartEvent(tc.name, loop.i))
       /\ IF IsBuiltIn(tc.name)
          THEN /\ loop' = [loop EXCEPT !.pc = "ensure", !.tool = tc, !.guard = "none"]
               /\ ep' = [type |-> PAGE_TOOLS[tc.name].requiredPermission,
                         origin |-> TabOrigin(loop.tabId), tabId |-> loop.tabId,
                         isLocal |-> FALSE]
          ELSE /\ loop' = [loop EXCEPT !.pc = "mcp", !.tool = tc, !.guard = "none"]
               /\ ep' = NoEp
  /\ UNCHANGED << planVars, gw, gen, io, mcp, bus, llmConfig, permissions, now, provenance, lastOp, toolCallState,
                  messages, ensured, dispatched, entryGuard, chats, epLog >>

\* history of the last operation on the stored list when it was a grant: its
\* arguments, its time, and whether the list it loaded held a grant of the triple
NoOp == [kind |-> "none", type |-> "", scope |-> "", origin |-> "", tabId |-> 0,
         at |-> 0, had |-> FALSE]

GrantOp(perms, type, scope, origin, tabId, t) ==
  [kind |-> "grant", type |-> type, scope |-> scope, origin |-> origin, tabId |-> tabId,
   at |-> t, had |-> \E k \in 1..Len(perms) : SameTriple(perms[k], type, origin, tabId)]

\* history of a completed ensurePermission call
EpRecord(existing, dialog, created, result) ==
  [type |-> ep.type, isLocal |-> ep.isLocal, existing |-> existing, dialog |-> dialog,
   created |-> created, result |-> result]

EpReturn_proceeds(granted) ==
  /\ loop' = [loop EXCEPT !.pc = "dispatch",
                          !.guard = IF granted THEN "granted" ELSE "denied"]
  /\ ensured' = IF granted THEN ensured \cup {ep.type} ELSE ensured

\* ensurePermission returns to executeToolCall, lines 847-849
EpReturn(granted) ==
  IF granted
  THEN /\ loop' = [loop EXCEPT !.pc = "dispatch", !.guard = "granted"]
       /\ ensured' = ensured \cup {ep.type}
  ELSE /\ loop' = [loop EXCEPT !.pc = "result", !.guard = "denied", !.result = "denied"]
       /\ ensured' = ensured

\* ensurePermission, lines 319-354: the lookup, the auto-grant of page_read under
\* the local provider, or the request to the decision surface
EnsureCheck ==
  /\ loop.pc = "ensure"
  /\ LET isLocal == llmConfig.provider = "ollama" IN
     IF checkPermission(permissions, ep.type, ep.origin, ep.tabId, now) # NoGrant
     THEN /\ EpReturn(TRUE)
          /\ epLog' = epLog \cup {[EpRecord(TRUE, "none", FALSE, TRUE) EXCEPT !.isLocal = isLocal]}
          /\ UNCHANGED << permissions, provenance, lastOp, sessionState, ep >>
     ELSE IF isLocal /\ ep.type = "page_read"
     THEN /\ permissions' = grantPermission(permissions, ep.type, "session", ep.origin,
                                            ep.tabId, now)
          /\ lastOp' = GrantOp(permissions, ep.type, "session", ep.origin, ep.tabId, now)
          /\ provenance' = [provenance EXCEPT ![Triple(ep.type, ep.origin, ep.tabId)] = "auto"]
          /\ sessionState' = addAuditEvent(sessionState, AutoGrantedEvent(ep.type, ep.origin))
          /\ EpReturn(TRUE)
          /\ epLog' = epLog \cup {[EpRecord(FALSE, "none", TRUE, TRUE) EXCEPT !.isLocal = isLocal]}
          /\ ep' = ep
     ELSE /\ sessionState' = addAuditEvent(sessionState, RequestedEvent(ep.type, ep.origin))
          /\ ep' = [ep EXCEPT !.isLocal = isLocal]
          /\ loop' = [loop EXCEPT !.pc = "dialog"]
          /\ UNCHANGED << permissions, provenance, lastOp, ensured, epLog >>
  /\ UNCHANGED << planVars, gw, gen, io, mcp, bus, llmConfig, now, toolCallState, messages, dispatched,
                  entryGuard, chats >>

\* ensurePermission, lines 356-390: the decision surface settles
DialogReply ==
  /\ loop.pc = "dialog"
  /\ \E answer \in {"granted", "denied", "reject"}, scope \in Scopes :
       CASE answer = "granted" ->
              /\ permissions' = grantPermission(permissions, ep.type, scope, ep.origin,
                                                ep.tabId, now)
              /\ lastOp' = GrantOp(permissions, ep.type, scope, ep.origin, ep.tabId, now)
              /\ provenance' = [provenance EXCEPT ![Triple(ep.type, ep.origin, ep.tabId)] = "user"]
              /\ sessionState' = addAuditEvent(sessionState,
                                               GrantedEvent(ep.type, scope, ep.origin))
              /\ EpReturn(TRUE)
              /\ epLog' = epLog \cup {EpRecord(FALSE, "granted", TRUE, TRUE)}
         [] answer = "denied" ->
              /\ scope = "page"
              /\ sessionState' = addAuditEvent(sessionState, DeniedEvent(ep.type, ep.origin))
              /\ EpReturn(FALSE)
              /\ epLog' = epLog \cup {EpRecord(FALSE, "denied", FALSE, FALSE)}
              /\ UNCHANGED << permissions, provenance, lastOp >>
         [] OTHER ->
              /\ scope = "page"
              /\ IF ep.isLocal /\ ep.type = "page_action"
                 THEN /\ permissions' = grantPermission(permissions, ep.type, "page",
                                                        ep.origin, ep.tabId, now)
                      /\ lastOp' = GrantOp(permissions, ep.type, "page", ep.origin,
                                           ep.tabId, now)
                      /\ provenance' = [provenance EXCEPT
                                          ![Triple(ep.type, ep.origin, ep.tabId)] = "fallback"]
                      /\ sessionState' = addAuditEvent(sessionState,
                                            FallbackGrantedEvent(ep.type, ep.origin))
                      /\ EpReturn(TRUE)
                      /\ epLog' = epLog \cup {EpRecord(FALSE, "failed", TRUE, TRUE)}
                 ELSE /\ EpReturn(FALSE)
                      /\ epLog' = epLog \cup {EpRecord(FALSE, "failed", FALSE, FALSE)}
                      /\ UNCHANGED << permissions, provenance, lastOp, sessionState >>
  /\ UNCHANGED << planVars, gw, gen, io, mcp, bus, llmConfig, now, toolCallState, messages, dispatched,
                  entryGuard, chats, ep >>


DispatchRecord(toolName) ==
  [route |-> RouteOf(toolName), tool |-> toolName,
   required |-> PAGE_TOOLS[toolName].requiredPermission,
   ensured |-> PAGE_TOOLS[toolName].requiredPermission \in ensured, preread |-> FALSE]

\* executeToolCall, lines 849-871: the granted built-in tool is routed to the tab
\* (or a tab is created); a rejected send surfaces in the loop's catch, lines 1051-1057
Dispatch ==
  /\ loop.pc = "dispatch"
  /\ IF RouteOf(loop.tool.name) = "TABS_CREATE"
     THEN IF loop.tool.url
          THEN /\ dispatched' = dispatched \cup {DispatchRecord(loop.tool.name)}
               /\ loop' = [loop EXCEPT !.pc = "result", !.result = "navigated"]
               /\ toolCallState' = toolCallState
          ELSE /\ dispatched' = dispatched
               /\ loop' = [loop EXCEPT !.pc = "result", !.result = "no_url"]
               /\ toolCallState' = toolCallState
     ELSE /\ dispatched' = dispatched \cup {DispatchRecord(loop.tool.name)}
          /\ \E outcome \in {"ok", "reject"} :
               IF outcome = "ok"
               THEN /\ loop' = [loop EXCEPT !.pc = "result", !.result = "ok"]
                    /\ toolCallState' = toolCallState
               ELSE /\ loop' = [loop EXCEPT !.pc = "done"]
                    /\ toolCallState' = Errored(toolCallState, DispatchError)
  /\ UNCHANGED << planVars, gw, gen, io, mcp, bus, llmConfig, permissions, now, provenance, lastOp, sessionState, ep,
                  messages, ensured, entryGuard, chats, epLog >>

\* executeToolCall, lines 874-890: a name that is no built-in is looked up among
\* the tools of the enabled MCP servers; callMcpTool's failure is caught
McpCall ==
  /\ loop.pc = "mcp"
  /\ IF McpServerOf(McpRegistry, loop.tool.name) = 0
     THEN /\ loop' = [loop EXCEPT !.pc = "result", !.result = "unknown_tool"]
          /\ dispatched' = dispatched
     ELSE /\ \E outcome \in {"mcp_ok"} :
               loop' = [loop EXCEPT !.pc = "result", !.result = outcome]
          /\ dispatched' = dispatched \cup
               {[route |-> "MCP", tool |-> loop.tool.name, required |-> "none",
                 ensured |-> TRUE, preread |-> FALSE]}
  /\ UNCHANGED << planVars, gw, gen, io, mcp, bus, llmConfig, permissions, now, provenance, lastOp, sessionState,
                  toolCallState, ep, messages, ensured, entryGuard, chats, epLog >>

\* runToolCallLoop, lines 1000-1034 and 1060-1063: executeToolCall has returned;
\* the record, the DataEntry, the result event and the two messages are added, then
\* the next call starts, the next chat is issued or the loop is exhausted
Result ==
  /\ loop.pc = "result"
  /\ LET toolName == loop.tool.name
         tcs == [toolCallState EXCEPT !.calls =
                   Append(@, [toolName |-> toolName, result |-> loop.result,
                              iteration |-> loop.i + 1])]
         ses == addAuditEvent(
                  addDataEntry(sessionState,
                    [origin |-> "openlens", originType |-> "local",
                     dataType |-> << "tool", toolName >>,
                     tokenCount |-> TokensOf(loop.result), entryMethod |-> "tool_call"]),
                  ToolCallResultEvent(toolName,
                    loop.result \in {"ok", "navigated", "mcp_ok"}))
     IN /\ entryGuard' = Append(entryGuard,
             [tool |-> toolName,
              declared |-> IF IsBuiltIn(toolName)
                           THEN {PAGE_TOOLS[toolName].requiredPermission} ELSE {},
              guard |-> loop.guard])
        /\ messages' = messages \o << [role |-> "assistant", about |-> toolName],
                                      [role |-> "user", about |-> loop.result] >>
        /\ IF Len(loop.queue) > 1
           THEN /\ loop' = [loop EXCEPT !.pc = "call", !.queue = Tail(@), !.tool = NoCall,
                                        !.guard = "none", !.result = ""]
                /\ toolCallState' = tcs
                /\ sessionState' = ses
                /\ chats' = chats
           ELSE EnterIteration(loop.i + 1, tcs, ses)
  /\ UNCHANGED << planVars, gw, gen, io, mcp, bus, llmConfig, permissions, now, provenance, lastOp, ep, ensured,
                  dispatched, epLog >>

\* chrome.storage.onChanged, lines 251-265: the setup changes the provider
SwitchProvider ==
  /\ \E p \in Providers \ {llmConfig.provider} : llmConfig' = [provider |-> p]
  /\ UNCHANGED << planVars, gw, gen, io, mcp, bus, permissions, now, provenance, lastOp, loopVars >>

\* ---------------------------------------------------------------- plan mode
NoPlan == [steps |-> << >>, url |-> "", made |-> FALSE]

IdleExec == [pc |-> "idle", stepIdx |-> 0, tabId |-> 0, origin |-> "", isLocal |-> FALSE,
             stage |-> "", url |-> "", dialog |-> "none"]

\* detectCrossOrigin's null
NoWarning == [warn |-> FALSE, origins |-> {}, high |-> FALSE]

\* no CHECK_CROSS_ORIGIN has been answered for the plan as it is
NotAsked == [asked |-> FALSE, answer |-> NoWarning]

\* a TaskStep as generatePlan and createFallbackPlan build it: the capability and
\* the write flag are those of the built-in table
PlanStep(tool, url) ==
  [tool |-> tool, url |-> url,
   requiredPermission |-> PAGE_TOOLS[tool].requiredPermission,
   isWriteAction |-> PAGE_TOOLS[tool].isWriteAction,
   status |-> "pending", origin |-> "", sensitivity |-> "", llmOutput |-> ""]

\* createFallbackPlan: read, an optional find, read
createFallbackPlan(find) ==
  IF find
  THEN << PlanStep("read_page", FALSE), PlanStep("find_on_page", FALSE),
          PlanStep("read_page", FALSE) >>
  ELSE << PlanStep("read_page", FALSE), PlanStep("read_page", FALSE) >>

\* the plans generatePlan returns: a fallback plan, or the steps the model listed
LlmPlans == { << PlanStep("read_page", FALSE), PlanStep("navigate", TRUE) >> }

PlanStartedEvent(provider) ==
  [type |-> "task_started", origin |-> "openlens",
   detail |-> [mode |-> "", provider |-> provider]]

ToolCallEvent(origin, tool) ==
  [type |-> "tool_call", origin |-> origin, detail |-> [tool |-> tool]]

StepPromptEvent(provider) ==
  [type |-> "llm_prompt", origin |-> "openlens",
   detail |-> [mode |-> "", iterations |-> 0, provider |-> provider]]

TaskStepEvent(origin, tool) ==
  [type |-> "task_step", origin |-> origin, detail |-> [tool |-> tool]]

DeniedOutput_tool == "(Tool error)"

\* executeStep, line 559: the output of a step the user denied
DeniedOutput == "(Permission denied by user)"

\* step.llmOutput of a step that did not run
NewSession_keepLedger(s, t) == [s EXCEPT !.sessionId = t, !.auditEvents = << >>]

\* the session reset of lines 1094-1100: counters, entries, events and id
NewSession(s, t) ==
  [s EXCEPT !.sessionId = t, !.totalTokens = 0, !.contextUsed = 0,
            !.dataEntries = << >>, !.auditEvents = << >>]

\* messageHandler CREATE_PLAN, lines 1089-1116: session reset, task_started, and
\* the page read is requested from the tab
CreatePlan(tabId) ==
  /\ sessionState' = addAuditEvent(NewSession(sessionState, now),
                                   PlanStartedEvent(llmConfig.provider))
  /\ exec' = [IdleExec EXCEPT !.pc = "planread", !.tabId = tabId]
  /\ dispatched' = {[route |-> "READ_PAGE", tool |-> "read_page", required |-> "page_read",
                     ensured |-> FALSE, preread |-> TRUE]}
  /\ ensured' = {}
  /\ entryGuard' = << >>
  /\ chats' = << >>
  /\ epLog' = {}
  /\ budget' = [budget EXCEPT !.intents = @ + 1]
  /\ warning' = NotAsked
  /\ UNCHANGED << llmConfig, permissions, now, provenance, lastOp, toolCallState, loop,
                  ep, messages, tabUrl, currentPlan, gw, gen, io, mcp, bus >>

\* CREATE_PLAN, lines 1117-1128: the page read settles or its 2 s timeout wins
PlanPageRead ==
  /\ exec.pc = "planread"
  /\ \E outcome \in {"context", "none"} :
       exec' = [exec EXCEPT !.pc = "plangen",
                            !.url = IF outcome = "context" THEN tabUrl[exec.tabId] ELSE ""]
  /\ UNCHANGED << llmConfig, permissions, now, provenance, lastOp, loopVars,
                  tabUrl, currentPlan, budget, gw, gen, io, mcp, bus, warning >>

\* CREATE_PLAN, lines 1130-1135 with generatePlan: the plan is stored
PlanGenerated ==
  /\ exec.pc = "plangen"
  /\ \E steps \in { createFallbackPlan(f) : f \in BOOLEAN } \cup LlmPlans :
       /\ currentPlan' = [steps |-> steps, url |-> exec.url, made |-> TRUE]
       \* the fallback plan of a setup without model, or the plan of the model's reply
       /\ chats' = IF steps \in LlmPlans
                   THEN Append(chats, [ChatRecord(llmConfig.provider, FALSE, FALSE)
                                         EXCEPT !.reply = "content"])
                   ELSE chats
  /\ exec' = IdleExec
  /\ UNCHANGED << llmConfig, permissions, now, provenance, lastOp, sessionState,
                  toolCallState, loop, ep, messages, ensured, dispatched, entryGuard,
                  epLog, tabUrl, budget, gw, gen, io, mcp, bus, warning >>

\* the step of the plan with its fields replaced
WithStep(plan, idx, step) == [plan EXCEPT !.steps[idx] = step]

\* messageHandler EXECUTE_STEP with executeStep, lines 531-555: the step is marked
\* running and the guard is asked for the step's capability
ExecuteStep(stepIdx, tabId) ==
  /\ currentPlan.made
  /\ stepIdx \in 1..Len(currentPlan.steps)
  /\ LET step == currentPlan.steps[stepIdx]
         origin == IF currentPlan.url # "" THEN currentPlan.url ELSE "unknown"
     IN /\ currentPlan' = WithStep(currentPlan, stepIdx, [step EXCEPT !.status = "running"])
        /\ exec' = [IdleExec EXCEPT !.pc = "ensure", !.stepIdx = stepIdx, !.tabId = tabId,
                                    !.origin = origin,
                                    !.isLocal = (llmConfig.provider = "ollama"),
                                    !.stage = "tool"]
        /\ ep' = [type |-> step.requiredPermission, origin |-> origin, tabId |-> tabId,
                  isLocal |-> FALSE]
  /\ budget' = [budget EXCEPT !.execs = @ + 1]
  /\ warning' = NotAsked
  /\ UNCHANGED << llmConfig, permissions, now, provenance, lastOp, sessionState,
                  toolCallState, loop, messages, ensured, dispatched, entryGuard, chats,
                  epLog, tabUrl, gw, gen, io, mcp, bus >>

\* ensurePermission returns to executeStep, lines 556-576; dialog is how the
\* decision surface settled in this call, "none" when it was not asked
StepEpReturn(granted, dialog) ==
  LET step == currentPlan.steps[exec.stepIdx] IN
  IF granted
  THEN /\ ensured' = ensured \cup {ep.type}
       /\ currentPlan' = currentPlan
       /\ IF exec.stage = "tool" /\ ~exec.isLocal
          THEN /\ exec' = [exec EXCEPT !.pc = "ensure", !.stage = "send", !.dialog = dialog]
               /\ ep' = [ep EXCEPT !.type = "data_send", !.isLocal = FALSE]
          ELSE /\ exec' = [exec EXCEPT !.pc = "tool", !.dialog = dialog]
               /\ ep' = ep
  ELSE /\ ensured' = ensured
       /\ currentPlan' = WithStep(currentPlan, exec.stepIdx,
            [step EXCEPT !.status = "skipped",
                         !.llmOutput = IF exec.stage = "tool"
                                         THEN DeniedOutput
                                         ELSE "(Cloud send denied)"])
       /\ exec' = [IdleExec EXCEPT !.dialog = dialog]
       /\ ep' = ep

\* ensurePermission called by executeStep, lines 319-354: the lookup, the
\* auto-grant of page_read under the local provider, or the request to the
\* decision surface
StepEnsureCheck ==
  /\ exec.pc = "ensure"
  /\ LET isLocal == llmConfig.provider = "ollama" IN
     IF checkPermission(permissions, ep.type, ep.origin, ep.tabId, now) # NoGrant
     THEN /\ StepEpReturn(TRUE, "none")
          /\ epLog' = epLog \cup {[EpRecord(TRUE, "none", FALSE, TRUE) EXCEPT !.isLocal = isLocal]}
          /\ UNCHANGED << permissions, provenance, lastOp, sessionState >>
     ELSE IF isLocal /\ ep.type = "page_read"
     THEN /\ permissions' = grantPermission(permissions, ep.type, "session", ep.origin,
                                            ep.tabId, now)
          /\ lastOp' = GrantOp(permissions, ep.type, "session", ep.origin, ep.tabId, now)
          /\ provenance' = [provenance EXCEPT ![Triple(ep.type, ep.origin, ep.tabId)] = "auto"]
          /\ sessionState' = addAuditEvent(sessionState, AutoGrantedEvent(ep.type, ep.origin))
          /\ StepEpReturn(TRUE, "none")
          /\ epLog' = epLog \cup {[EpRecord(FALSE, "none", TRUE, TRUE) EXCEPT !.isLocal = isLocal]}
     ELSE /\ sessionState' = addAuditEvent(sessionState, RequestedEvent(ep.type, ep.origin))
          /\ ep' = [ep EXCEPT !.isLocal = isLocal]
          /\ exec' = [exec EXCEPT !.pc = "dialog"]
          /\ UNCHANGED << permissions, provenance, lastOp, ensured, epLog, currentPlan >>
  /\ UNCHANGED << llmConfig, now, toolCallState, loop, messages, dispatched, entryGuard,
                  chats, tabUrl, budget, gw, gen, io, mcp, bus, warning >>

\* ensurePermission called by executeStep, lines 356-390: the decision surface
\* settles
StepDialogReply ==
  /\ exec.pc = "dialog"
  /\ \E answer \in {"granted", "denied", "reject"}, scope \in Scopes :
       CASE answer = "granted" ->
              /\ permissions' = grantPermission(permissions, ep.type, scope, ep.origin,
                                                ep.tabId, now)
              /\ lastOp' = GrantOp(permissions, ep.type, scope, ep.origin, ep.tabId, now)
              /\ provenance' = [provenance EXCEPT ![Triple(ep.type, ep.origin, ep.tabId)] = "user"]
              /\ sessionState' = addAuditEvent(sessionState,
                                               GrantedEvent(ep.type, scope, ep.origin))
              /\ epLog' = epLog \cup {EpRecord(FALSE, "granted", TRUE, TRUE)}
              /\ StepEpReturn(TRUE, "granted")
         [] answer = "denied" ->
              /\ scope = "page"
              /\ sessionState' = addAuditEvent(sessionState, DeniedEvent(ep.type, ep.origin))
              /\ epLog' = epLog \cup {EpRecord(FALSE, "denied", FALSE, FALSE)}
              /\ StepEpReturn(FALSE, "denied")
              /\ UNCHANGED << permissions, provenance, lastOp >>
         [] OTHER ->
              /\ scope = "page"
              /\ IF ep.isLocal /\ ep.type = "page_action"
                 THEN /\ permissions' = grantPermission(permissions, ep.type, "page",
                                                        ep.origin, ep.tabId, now)
                      /\ lastOp' = GrantOp(permissions, ep.type, "page", ep.origin,
                                           ep.tabId, now)
                      /\ provenance' = [provenance EXCEPT
                                          ![Triple(ep.type, ep.origin, ep.tabId)] = "fallback"]
                      /\ sessionState' = addAuditEvent(sessionState,
                                            FallbackGrantedEvent(ep.type, ep.origin))
                      /\ epLog' = epLog \cup {EpRecord(FALSE, "failed", TRUE, TRUE)}
                      /\ StepEpReturn(TRUE, "failed")
                 ELSE /\ epLog' = epLog \cup {EpRecord(FALSE, "failed", FALSE, FALSE)}
                      /\ StepEpReturn(FALSE, "failed")
                      /\ UNCHANGED << permissions, provenance, lastOp, sessionState >>
  /\ UNCHANGED << llmConfig, now, toolCallState, loop, messages, dispatched, entryGuard,
                  chats, tabUrl, budget, gw, gen, io, mcp, bus, warning >>

\* Math.ceil((prompt.length + step.llmOutput.length) / 4), per reply text

\* the step has ended: status completed and, past the early return of a failed
\* tool, the task_step event (lines 702-712)
StepCompleted(step, output) == [step EXCEPT !.status = "completed", !.llmOutput = output]

\* executeStep, lines 578-657 and 696-712: the tool of the step is carried out;
\* a result with success adds the DataEntry and the tool_call event and issues the
\* analysis chat
StepTool ==
  /\ exec.pc = "tool"
  /\ LET step == currentPlan.steps[exec.stepIdx]
         sent == ~(RouteOf(step.tool) = "TABS_CREATE" /\ ~step.url)
         outcomes == IF RouteOf(step.tool) = "TABS_CREATE"
                     THEN IF step.url THEN {"navigated"} ELSE {"no_url"}
                     ELSE {"ok", "ok_emails", "fail", "reject"}
     IN /\ dispatched' = IF sent THEN dispatched \cup {DispatchRecord(step.tool)}
                         ELSE dispatched
        /\ \E outcome \in outcomes :
             CASE outcome \in {"ok", "ok_emails", "navigated"} ->
                    LET sensitivity == IF outcome = "ok_emails" THEN "medium" ELSE "low" IN
                    /\ sessionState' = addAuditEvent(
                          addDataEntry(sessionState,
                            [origin |-> exec.origin, originType |-> "page_content",
                             dataType |-> step.tool, tokenCount |-> TokensOf(outcome),
                             entryMethod |-> "tool_call"]),
                          ToolCallEvent(exec.origin, step.tool))
                    /\ entryGuard' = Append(entryGuard,
                          [tool |-> step.tool, declared |-> {step.requiredPermission},
                           guard |-> "granted"])
                    /\ currentPlan' = WithStep(currentPlan, exec.stepIdx,
                          [step EXCEPT !.origin = exec.origin, !.sensitivity = sensitivity])
                    /\ chats' = Append(chats, ChatRecord(llmConfig.provider, FALSE, TRUE))
                    /\ exec' = [exec EXCEPT !.pc = "analysis"]
               [] outcome \in {"fail", "no_url"} ->
                    /\ currentPlan' = WithStep(currentPlan, exec.stepIdx,
                                               StepCompleted(step, "(Tool error)"))
                    /\ exec' = IdleExec
                    /\ UNCHANGED << sessionState, entryGuard, chats >>
               [] OTHER ->
                    /\ currentPlan' = WithStep(currentPlan, exec.stepIdx,
                                               StepCompleted(step, "(Error)"))
                    /\ sessionState' = addAuditEvent(sessionState,
                                                     TaskStepEvent(exec.origin, step.tool))
                    /\ exec' = IdleExec
                    /\ UNCHANGED << entryGuard, chats >>
  /\ UNCHANGED << llmConfig, permissions, now, provenance, lastOp, toolCallState, loop,
                  ep, messages, ensured, epLog, tabUrl, budget, gw, gen, io, mcp, bus, warning >>

\* executeStep, lines 656-712: the analysis chat settles and the step completes
StepAnalysis ==
  /\ exec.pc = "analysis"
  /\ LET step == currentPlan.steps[exec.stepIdx] IN
     \E reply \in { r \in LlmReplies(llmConfig.provider, FALSE, 0) :
                      r.content \in {"", "Page is ok."} } :
       /\ chats' = SettleChat(reply)
       /\ IF reply.kind = "content"
          THEN /\ currentPlan' = WithStep(currentPlan, exec.stepIdx,
                     StepCompleted(step, IF reply.content = "" THEN "(No response)"
                                         ELSE reply.content))
               /\ sessionState' = addAuditEvent(
                     [addAuditEvent(sessionState, StepPromptEvent(llmConfig.provider))
                        EXCEPT !.contextUsed = @ + (IF reply.content = "" THEN 130 ELSE 129)],
                     TaskStepEvent(exec.origin, step.tool))
          ELSE /\ currentPlan' = WithStep(currentPlan, exec.stepIdx,
                                          StepCompleted(step, "(LLM unavailable)"))
               /\ sessionState' = addAuditEvent(sessionState,
                                                TaskStepEvent(exec.origin, step.tool))
  /\ exec' = IdleExec
  /\ UNCHANGED << llmConfig, permissions, now, provenance, lastOp, toolCallState, loop,
                  ep, messages, ensured, dispatched, entryGuard, epLog, tabUrl, budget, gw, gen, io, mcp, bus, warning >>

\* CHECK_CROSS_ORIGIN with detectCrossOrigin, lines 716-741: the origins of the
\* warning, or the empty sequence for null
CompletedOrigins(plan) ==
  { plan.steps[k].origin : k \in { j \in 1..Len(plan.steps) :
      plan.steps[j].status = "completed" /\ plan.steps[j].origin # "" } }

detectCrossOrigin_always(plan) ==
  [warn |-> TRUE, origins |-> CompletedOrigins(plan) \cup {plan.url}, high |-> FALSE]

detectCrossOrigin(plan) ==
  IF ~plan.made THEN NoWarning
  ELSE IF plan.url = "" \/ CompletedOrigins(plan) = {}
       THEN NoWarning
  ELSE IF plan.url \notin CompletedOrigins(plan)
       THEN [warn |-> TRUE, origins |-> CompletedOrigins(plan) \cup {plan.url},
             high |-> \E k \in 1..Len(plan.steps) :
                        /\ plan.steps[k].status = "completed"
                        /\ plan.steps[k].sensitivity = "high"]
  ELSE NoWarning

\* messageHandler CHECK_CROSS_ORIGIN, lines 1165-1167
CheckCrossOrigin ==
  /\ warning' = [asked |-> TRUE, answer |-> detectCrossOrigin(currentPlan)]
  /\ UNCHANGED << llmConfig, permissions, now, provenance, lastOp, loopVars, tabUrl,
                  currentPlan, exec, budget, gw, gen, io, mcp, bus >>

\* chrome.tabs.onUpdated with a changed url, lines 305-309: the tab shows a page of
\* another origin and the page grants of the tab are revoked
Navigated(tabId, origin) ==
  /\ tabUrl' = [tabUrl EXCEPT ![tabId] = origin]
  /\ permissions' = revokePagePermissions(permissions, tabId)
  /\ lastOp' = NoOp
  /\ budget' = [budget EXCEPT !.navs = @ + 1]
  /\ UNCHANGED << llmConfig, now, provenance, loopVars, currentPlan, exec, gw, gen, io, mcp, bus, warning >>

\* ----------------------------------------------------------- generatePlan
\* A reply to the planning prompt is a sequence of fragments:
\*   say   prose without brackets         [  ]   the brackets
\*   read  {"tool": "read_page"}          odd    {"tool": "teleport"}
\*   nav   {"tool": "navigate", "toolParams": {"url": "https://b.example"}}
\*   null  the JSON value null
PlanReplies ==
  { << >>,
    << "say" >>,
    << "[", "read", "nav", "]" >>,
    << "say", "[", "read", "nav", "]", "say" >>,
    << "[", "odd", "]" >>,
    << "[", "read", "proto", "]" >>,
    << "[", "]" >>,
    << "[", "null", "]" >>,
    << "[", "read" >>,
    << "]", "say", "[" >>,
    << "[", "read", "]", "say", "[", "nav", "]" >>,
    << "[", "read", "say", "]" >> }

\* content.match(/\[[\s\S]*\]/), line 487: from the first [ to the last ] after
\* it; the empty sequence for null
PlanMatch(content) ==
  LET opens == {k \in 1..Len(content) : content[k] = "["}
      first == IF opens = {} THEN 0 ELSE CHOOSE k \in opens : \A j \in opens : k <= j
      closes == {k \in 1..Len(content) : content[k] = "]" /\ k > first}
  IN IF first = 0 \/ closes = {} THEN << >>
     ELSE SubSeq(content, first, CHOOSE k \in closes : \A j \in closes : k >= j)

\* JSON.parse of the match and the map of lines 489-503: a step per element; ok
\* is false for the SyntaxError of JSON.parse and for the TypeError of reading
\* step.tool of null. PAGE_TOOLS[step.tool] is a property lookup on an object
\* literal: it is undefined for a name such as "odd", whose tool is replaced by
\* read_page, and it is an inherited member of Object.prototype for a name such
\* as "constructor" ("proto"), whose tool is kept while requiredPermission and
\* isWriteAction, undefined on that member, fall to 'page_read' and false
PlanOfMatch(match) ==
  LET elems == SubSeq(match, 2, Len(match) - 1)
      StepOf(tok) == CASE tok = "nav"   -> PlanStep("navigate", TRUE)
                       [] tok = "proto" -> [PlanStep("read_page", FALSE)
                                              EXCEPT !.tool = "constructor"]
                       [] OTHER         -> PlanStep("read_page", FALSE)
  IN IF \A k \in 1..Len(elems) : elems[k] \in {"read", "nav", "odd", "proto"}
     THEN [ok |-> TRUE, steps |-> [k \in 1..Len(elems) |-> StepOf(elems[k])]]
     ELSE [ok |-> FALSE, steps |-> << >>]

\* generatePlan past the race, lines 480-510, for what llmChat settled to
PlanOfReply(intent, reply) ==
  LET fallback == createFallbackPlan(intent.find /\ intent.long) IN
  IF reply.kind = "throw" THEN fallback
  ELSE IF PlanMatch(reply.content) = << >> THEN fallback
  ELSE IF PlanOfMatch(PlanMatch(reply.content)).ok
       THEN PlanOfMatch(PlanMatch(reply.content)).steps
  ELSE fallback

\* generatePlan at rest
IdleGen == [pc |-> "idle", intent |-> [find |-> FALSE, long |-> FALSE], model |-> "",
            llm |-> "none", timer |-> "none", first |-> "none",
            reply |-> [kind |-> "none", content |-> << >>], plan |-> << >>]

Settled_lastWins(g, plan, by) ==
  [g EXCEPT !.pc = "returned", !.plan = plan, !.first = IF g.pc = "race" THEN by ELSE @]

\* Promise.race, line 478: the first of the two promises to settle resumes
\* generatePlan, the other one's outcome has no reader
Settled(g, plan, by) ==
  IF g.pc = "race" THEN [g EXCEPT !.pc = "returned", !.plan = plan, !.first = by] ELSE g

\* generatePlan is called, lines 440-477: without a model the fallback plan is
\* returned at once, else llmChat is called and the 20 s timer is armed
GenCall(intent, model) ==
  /\ gen.pc \in {"idle", "returned"}
  /\ gen.llm # "pending" /\ gen.timer # "armed"
  /\ gen' = IF model = ""
            THEN [IdleGen EXCEPT !.pc = "returned", !.intent = intent,
                                 !.plan = createFallbackPlan(intent.find /\ intent.long)]
            ELSE [IdleGen EXCEPT !.pc = "race", !.intent = intent, !.model = model,
                                 !.llm = "pending", !.timer = "armed"]
  /\ UNCHANGED << planVars, io, mcp, bus, gw, llmConfig, permissions, now, provenance, lastOp, loopVars >>

\* llmChat settles, with a reply or an error, before or after the timer
GenLlm ==
  /\ gen.llm = "pending"
  /\ \E reply \in { [kind |-> "throw", content |-> << >>] }
                    \cup { [kind |-> "content", content |-> c] : c \in PlanReplies } :
       gen' = [Settled(gen, PlanOfReply(gen.intent, reply), "llm")
                 EXCEPT !.llm = "settled", !.reply = reply]
  /\ UNCHANGED << planVars, io, mcp, bus, gw, llmConfig, permissions, now, provenance, lastOp, loopVars >>

\* the 20 s timer fires, before or after llmChat settles: lines 477-482
GenTimeout ==
  /\ gen.timer = "armed"
  /\ gen' = [Settled(gen, createFallbackPlan(gen.intent.find /\ gen.intent.long), "timer")
               EXCEPT !.timer = "fired"]
  /\ UNCHANGED << planVars, io, mcp, bus, gw, llmConfig, permissions, now, provenance, lastOp, loopVars >>

\* ------------------------------------------- llmChat, the ollama branch
\* A reply text is a sequence of fragments, each with at most one brace outside
\* or inside a string:
\*   say    prose                        mk     {"tool"
\*   name   : "navigate"                 empty  : ""
\*   args{  , "args": {                  val    "url": "https://b.example"
\*   val}   "url": "https://b.example/}" (a string that holds a brace)
\*   }      the closing brace
ReplyTexts ==
  { << >>,
    << "say" >>,
    << "mk", "name", "}" >>,
    << "say", "mk", "name", "args{", "val", "}", "}", "say" >>,
    << "mk", "name", "args{", "}", "}" >>,
    << "mk", "name", "args{", "val" >>,
    << "mk", "empty", "}" >>,
    << "mk", "say", "}" >>,
    << "say", "mk", "name", "args{", "val}", "}", "}" >>,
    << "mk", "say", "}", "mk", "name", "}" >> }

\* the characters { and } of a fragment, as the scan counts them
Opens(tok) == IF tok \in {"mk", "args{"} THEN 1 ELSE 0

Closes(tok) == IF tok \in {"}", "val}"} THEN 1 ELSE 0

\* content.indexOf('{"tool"'), 0 for -1
MarkerIndex(content) ==
  LET hits == {k \in 1..Len(content) : content[k] = "mk"}
  IN IF hits = {} THEN 0 ELSE CHOOSE k \in hits : \A j \in hits : k <= j

\* the for loop of lines 112-115: the position after the brace that brings the
\* depth back to 0, Null when the text ends first
ScanEnd_noDepth(content, ci, depth) ==
  LET hits == {k \in ci..Len(content) : Closes(content[k]) = 1}
  IN IF hits = {} THEN Null ELSE (CHOOSE k \in hits : \A j \in hits : k <= j) + 1

RECURSIVE ScanEnd(_, _, _)
ScanEnd(content, ci, depth) ==
  IF ci > Len(content) THEN Null
  ELSE LET d == depth + Opens(content[ci]) - Closes(content[ci])
       IN IF Closes(content[ci]) = 1 /\ d = 0 THEN ci + 1
          ELSE ScanEnd(content, ci + 1, d)

\* JSON.parse of a slice: the object, or a SyntaxError
JsonParse(slice) ==
  IF /\ Len(slice) >= 3
     /\ slice[1] = "mk"
     /\ slice[2] \in {"name", "empty"}
     /\ \/ SubSeq(slice, 3, Len(slice)) = << "}" >>
        \/ SubSeq(slice, 3, Len(slice)) = << "args{", "}", "}" >>
        \/ /\ Len(slice) = 6
           /\ slice[3] = "args{" /\ slice[4] \in {"val", "val}"}
           /\ slice[5] = "}" /\ slice[6] = "}"
  THEN [ok |-> TRUE, tool |-> IF slice[2] = "name" THEN "navigate" ELSE "",
        url |-> Len(slice) = 6]
  ELSE [ok |-> FALSE, tool |-> "", url |-> FALSE]

\* what llmChat returns for a reply text it searches for a tool call
\* (lines 107-128 and 141-160)
ParsedReply(content) ==
  LET startIdx == MarkerIndex(content)
      endIdx == IF startIdx = 0 THEN Null ELSE ScanEnd(content, startIdx, 0)
      parsed == IF endIdx > startIdx
                THEN JsonParse(SubSeq(content, startIdx, endIdx - 1))
                ELSE [ok |-> FALSE, tool |-> "", url |-> FALSE]
  IN IF startIdx # 0 /\ endIdx > startIdx /\ parsed.ok /\ parsed.tool # ""
     THEN [kind |-> "toolCalls", content |-> << >>,
           toolCalls |-> << ReplyCall(parsed.tool, parsed.url) >>]
     ELSE [kind |-> "content", content |-> content, toolCalls |-> << >>]

\* the conversations llmChat is called with: with or without a system message,
\* whose text may hold the page content
Conversations ==
  { << [role |-> "user", content |-> << "intent" >>] >> }
    \cup { << [role |-> "system", content |-> sys],
              [role |-> "user", content |-> << "intent" >>] >> :
             sys \in { << "prompt" >>, << "prompt", "Current page content:" >> } }

\* options.tools, by name
ToolSchemas == { << >>, << "read_page", "navigate" >> }

\* lines 80-93: the instructions with the catalog are appended to every system
\* message
fallbackMessages(msgs, tools) ==
  [k \in 1..Len(msgs) |->
     IF msgs[k].role = "system"
     THEN [msgs[k] EXCEPT !.content =
             @ \o << [direct |-> \E j \in 1..Len(@) : @[j] = "Current page content:",
                      toolDescriptions |-> tools] >>]
     ELSE msgs[k]]

\* llmChat at rest: no request sent, nothing returned
IdleGw == [pc |-> "idle", tools |-> << >>, messages |-> << >>, sent |-> << >>,
           first |-> 0, retry |-> 0, text |-> << >>,
           out |-> [kind |-> "none", content |-> << >>, toolCalls |-> << >>]]

\* the body of a POST to /api/chat
ChatBody(msgs, tools) == [messages |-> msgs, tools |-> tools]

\* llmChat is called: lines 66-74, the first request
GwCall(msgs, tools) ==
  /\ gw.pc \in {"idle", "done"}
  /\ gw' = [IdleGw EXCEPT !.pc = "first", !.messages = msgs, !.tools = tools,
                          !.sent = << ChatBody(msgs, tools) >>]
  /\ UNCHANGED << planVars, gen, io, mcp, bus, llmConfig, permissions, now, provenance, lastOp, loopVars >>

GwThrow == [kind |-> "throw", content |-> << >>, toolCalls |-> << >>]

\* lines 75-101 and 131-160: the first request settles; status 0 is a fetch that
\* rejects
GwFirst ==
  /\ gw.pc = "first"
  /\ \E status \in {0, 200, 400, 500}, text \in ReplyTexts, native \in BOOLEAN :
       /\ status # 200 => text = << >> /\ ~native
       /\ native => gw.tools # << >> /\ text = << >>
       /\ IF status = 400 /\ gw.tools # << >>
          THEN gw' = [gw EXCEPT !.pc = "retry", !.first = status,
                        !.sent = Append(@, ChatBody(fallbackMessages(gw.messages, gw.tools),
                                                    << >>))]
          ELSE gw' = [gw EXCEPT !.pc = "done", !.first = status, !.text = text,
                        !.out = IF status # 200 THEN GwThrow
                                ELSE IF native
                                THEN [kind |-> "toolCalls", content |-> text,
                                      toolCalls |-> << ReplyCall("read_page", FALSE) >>]
                                ELSE IF gw.tools # << >> THEN ParsedReply(text)
                                ELSE [kind |-> "content", content |-> text,
                                      toolCalls |-> << >>]]
  /\ UNCHANGED << planVars, gen, io, mcp, bus, llmConfig, permissions, now, provenance, lastOp, loopVars >>

\* lines 101-128: the retry settles
GwRetry ==
  /\ gw.pc = "retry"
  /\ \E status \in {0, 200, 400, 500}, text \in ReplyTexts :
       /\ status # 200 => text = << >>
       /\ gw' = [gw EXCEPT !.pc = "done", !.retry = status, !.text = text,
                           !.out = IF status # 200 THEN GwThrow ELSE ParsedReply(text)]
  /\ UNCHANGED << planVars, gen, io, mcp, bus, llmConfig, permissions, now, provenance, lastOp, loopVars >>

\* ------------------------------------- the grant list, operation by operation
\* grantPermission, lib/permissions.ts lines 44-70: load, replace the grant of the
\* triple, save
GrantPermission(type, scope, origin, tabId) ==
  /\ permissions' = grantPermission(permissions, type, scope, origin, tabId, now)
  /\ lastOp' = GrantOp(permissions, type, scope, origin, tabId, now)
  /\ UNCHANGED << planVars, gw, gen, io, mcp, bus, llmConfig, now, provenance, loopVars >>

\* revokePermission, lib/permissions.ts lines 72-82
RevokePermission(type, origin, tabId) ==
  /\ permissions' = revokePermission(permissions, type, origin, tabId)
  /\ lastOp' = NoOp
  /\ UNCHANGED << planVars, gw, gen, io, mcp, bus, llmConfig, now, provenance, loopVars >>

\* chrome.tabs.onRemoved
TabRemoved(tabId) ==
  /\ permissions' = revokeAllForTab(permissions, tabId)
  /\ lastOp' = [NoOp EXCEPT !.kind = "removed", !.tabId = tabId,
                            !.had = \E k \in 1..Len(permissions) :
                                      permissions[k].tabId = tabId]
  /\ UNCHANGED << planVars, gw, gen, io, mcp, bus, llmConfig, now, provenance, loopVars >>

\* chrome.tabs.onUpdated with a changed url
TabUpdated(tabId) ==
  /\ permissions' = revokePagePermissions(permissions, tabId)
  /\ lastOp' = [NoOp EXCEPT !.kind = "updated", !.tabId = tabId,
                            !.had = \E k \in 1..Len(permissions) :
                                      /\ permissions[k].tabId = tabId
                                      /\ permissions[k].scope = "page"]
  /\ UNCHANGED << planVars, gw, gen, io, mcp, bus, llmConfig, now, provenance, loopVars >>

\* Date.now() advances
Tick ==
  /\ now < TickMs * (1 + MaxTicks)
  /\ now' = now + TickMs
  /\ UNCHANGED << planVars, gw, gen, io, mcp, bus, llmConfig, permissions, provenance, lastOp, loopVars >>

\* the triples of the stored list
\* the grants requested in SpecPerm
GrantTypes == {"page_read", "page_action"}

\* the list an operation saves, from the list it loaded
SavedBy(op, perms, t) ==
  CASE op.kind = "grant" -> grantPermission(perms, op.type, op.scope, op.origin, op.tabId, t)
    [] op.kind = "revoke" -> revokePermission(perms, op.type, op.origin, op.tabId)
    [] op.kind = "revokeAll" -> revokeAllForTab(perms, op.tabId)
    [] OTHER -> revokePagePermissions(perms, op.tabId)

\* no operation in flight; base is the stored list when the round began
IdleIo == [ops |-> [i \in {1, 2} |-> [pc |-> "idle", op |-> [kind |-> "none"],
                                     loaded |-> << >>]],
           base |-> << >>, rounds |-> 0]

\* an operation is called and loadPermissions resolves: lines 50, 77, 85, 91
OpLoad(i, op) ==
  /\ io.ops[i].pc = "idle"
  /\ io.rounds < MaxRounds
  /\ io' = [io EXCEPT !.ops[i] = [pc |-> "loaded", op |-> op, loaded |-> permissions]]
  /\ UNCHANGED << planVars, gw, gen, mcp, bus, llmConfig, permissions, now, provenance, lastOp,
                  loopVars >>

\* savePermissions of the operation: lines 67, 81, 87, 95
OpSave(i) ==
  /\ io.ops[i].pc = "loaded"
  /\ permissions' = SavedBy(io.ops[i].op, io.ops[i].loaded, now)
  /\ io' = [io EXCEPT !.ops[i].pc = "done"]
  /\ UNCHANGED << planVars, gw, gen, mcp, bus, llmConfig, now, provenance, lastOp, loopVars >>

\* both operations have returned; the next two start from the list as it is
NewRound ==
  /\ \A i \in {1, 2} : io.ops[i].pc = "done"
  /\ io' = [IdleIo EXCEPT !.base = permissions, !.rounds = io.rounds + 1]
  /\ UNCHANGED << planVars, gw, gen, mcp, bus, llmConfig, permissions, now, provenance, lastOp,
                  loopVars >>

\* ------------------------------------------------------- the specifications
\* executeStep asks for origin 'unknown' when the plan has no page url
Triples == PermTypes \X (Origins \cup {"unknown"}) \X Tabs

\* ------------------------------------------- the MCP client and its registry
\* a base URL is its host followed by an optional trailing "/"
McpBaseUrls == { << "h1" >>, << "h1", "/" >> }
McpIds == {"srv1", "srv2"}
McpToolSets == { {"mcp_echo"}, {"mcp_echo", "mcp_sum"} }
\* a fetch answers with an ok status or fails: a status that is not ok and a
\* rejected fetch end alike at every call of the client
FetchOutcomes == {"ok", "failed"}

\* baseUrl.replace(/\/$/, '') + '/mcp'
McpUrl(baseUrl) ==
  (IF Len(baseUrl) > 0 /\ baseUrl[Len(baseUrl)] = "/"
     THEN SubSeq(baseUrl, 1, Len(baseUrl) - 1) ELSE baseUrl) \o << "/mcp" >>

\* resolveMcpEndpoint: first and second are the outcomes of the two probes;
\* the second probe is sent only when the first did not answer ok
resolveMcpEndpoint(baseUrl, first, second) ==
  IF first = "ok"
    THEN [ok |-> TRUE, endpoint |-> McpUrl(baseUrl),
          wire |-> << [method |-> "initialize", url |-> McpUrl(baseUrl), outcome |-> first] >>]
    ELSE [ok |-> second = "ok", endpoint |-> IF second = "ok" THEN baseUrl ELSE << >>,
          wire |-> << [method |-> "initialize", url |-> McpUrl(baseUrl), outcome |-> first],
                      [method |-> "initialize", url |-> baseUrl, outcome |-> second] >>]

\* callMcpTool: a failed resolution is caught and the call goes to serverUrl
callMcpTool(serverUrl, first, second, call) ==
  LET r == resolveMcpEndpoint(serverUrl, first, second)
      endpoint == IF r.ok THEN r.endpoint ELSE serverUrl
  IN [success |-> call = "ok", endpoint |-> endpoint,
      wire |-> Append(r.wire, [method |-> "tools/call", url |-> endpoint, outcome |-> call])]

\* connectMcpServer: resolution, the optional initialize, then tools/list
connectMcpServer(url, first, second, init, list) ==
  LET r == resolveMcpEndpoint(url, first, second)
  IN IF ~r.ok THEN [ok |-> FALSE, endpoint |-> << >>, wire |-> r.wire]
     ELSE [ok |-> list = "ok", endpoint |-> r.endpoint,
           wire |-> r.wire \o << [method |-> "initialize", url |-> r.endpoint, outcome |-> init],
                                 [method |-> "tools/list", url |-> r.endpoint, outcome |-> list] >>]

saveMcpServer(servers, server) ==
  LET hits == { k \in 1..Len(servers) : servers[k].id = server.id }
  IN IF hits # {}
       THEN [servers EXCEPT ![CHOOSE k \in hits : \A j \in hits : k <= j] = server]
       ELSE Append(servers, server)

deleteMcpServer(servers, id) == SelectSeq(servers, LAMBDA s : s.id # id)

\* getAllMcpTools: the tools of the enabled servers, each with its server's id
getAllMcpTools(servers) ==
  { [name |-> n, serverId |-> servers[k].id] :
      << k, n >> \in { x \in (1..Len(servers)) \X {"mcp_echo", "mcp_sum"} :
                         servers[x[1]].enabled /\ x[2] \in servers[x[1]].tools } }

\* the registry in storage is empty until a server is connected; pc, catalog and
\* tool are the position and locals of the running tool loop; wire, before,
\* last and resolved are history
IdleMcp ==
  [servers |-> << >>, toolCount |-> 0, pc |-> "idle", catalog |-> {}, tool |-> "none",
   wire |-> << >>, before |-> << >>, last |-> [kind |-> "none", id |-> "none", ok |-> FALSE],
   resolved |-> [i \in McpIds |-> << >>], ops |-> 0]

\* CONNECT_MCP_SERVER
ConnectMcpServer ==
  /\ mcp.ops < MaxMcpOps
  /\ \E url \in McpBaseUrls, first \in FetchOutcomes, second \in FetchOutcomes,
        init \in FetchOutcomes, list \in FetchOutcomes, id \in McpIds,
        tools \in McpToolSets :
       LET c == connectMcpServer(url, first, second, init, list)
           server == [id |-> id, url |-> url, enabled |-> TRUE, status |-> "connected",
                      tools |-> tools]
           saved == saveMcpServer(mcp.servers, server)
       IN IF c.ok
            THEN /\ mcp' = [mcp EXCEPT !.servers = saved,
                                       !.toolCount = Cardinality(getAllMcpTools(saved)),
                                       !.wire = c.wire, !.before = mcp.servers,
                                       !.last = [kind |-> "connect", id |-> id, ok |-> TRUE],
                                       !.resolved[id] = c.endpoint,
                                       !.ops = @ + 1]
                 /\ sessionState' = addAuditEvent(sessionState,
                      [type |-> "mcp_discovered", origin |-> url,
                       detail |-> [toolCount |-> Cardinality(tools), tools |-> tools]])
            ELSE /\ mcp' = [mcp EXCEPT !.wire = c.wire, !.before = mcp.servers,
                                       !.last = [kind |-> "connect", id |-> "none", ok |-> FALSE],
                                       !.ops = @ + 1]
                 /\ UNCHANGED sessionState
  /\ UNCHANGED << llmConfig, permissions, now, toolCallState, loop, ep, messages, ensured,
                  dispatched, entryGuard, chats, epLog, provenance, lastOp, tabUrl,
                  currentPlan, exec, budget, warning, gw, gen, io, bus >>

\* DELETE_MCP_SERVER
DeleteMcpServer ==
  /\ mcp.ops < MaxMcpOps
  /\ \E id \in McpIds :
       LET saved == deleteMcpServer(mcp.servers, id)
       IN mcp' = [mcp EXCEPT !.servers = saved,
                             !.toolCount = Cardinality(getAllMcpTools(saved)),
                             !.wire = << >>, !.before = mcp.servers,
                             !.last = [kind |-> "delete", id |-> id, ok |-> TRUE],
                             !.ops = @ + 1]
  /\ UNCHANGED << llmConfig, permissions, now, sessionState, toolCallState, loop, ep,
                  messages, ensured, dispatched, entryGuard, chats, epLog, provenance,
                  lastOp, tabUrl, currentPlan, exec, budget, warning, gw, gen, io, bus >>

\* TOGGLE_MCP_SERVER
ToggleMcpServer ==
  /\ mcp.ops < MaxMcpOps
  /\ \E id \in McpIds :
       LET hits == { k \in 1..Len(mcp.servers) : mcp.servers[k].id = id }
           found == CHOOSE k \in hits : \A j \in hits : k <= j
           saved == saveMcpServer(mcp.servers,
                      [mcp.servers[found] EXCEPT !.enabled = ~@])
       IN IF hits # {}
            THEN mcp' = [mcp EXCEPT !.servers = saved,
                                    !.toolCount = Cardinality(getAllMcpTools(saved)),
                                    !.wire = << >>, !.before = mcp.servers,
                                    !.last = [kind |-> "toggle", id |-> id, ok |-> TRUE],
                                    !.ops = @ + 1]
            ELSE mcp' = [mcp EXCEPT !.wire = << >>, !.before = mcp.servers,
                                    !.last = [kind |-> "toggle", id |-> id, ok |-> FALSE],
                                    !.ops = @ + 1]
  /\ UNCHANGED << llmConfig, permissions, now, sessionState, toolCallState, loop, ep,
                  messages, ensured, dispatched, entryGuard, chats, epLog, provenance,
                  lastOp, tabUrl, currentPlan, exec, budget, warning, gw, gen, io, bus >>

\* runToolCallLoop reads the catalog of MCP tools once, before its first request
McpLoopStart ==
  /\ mcp.ops < MaxMcpOps
  /\ mcp.pc = "idle"
  /\ mcp' = [mcp EXCEPT !.pc = "chat", !.catalog = getAllMcpTools(mcp.servers),
                        !.tool = "none", !.wire = << >>,
                        !.last = [kind |-> "start", id |-> "none", ok |-> TRUE],
                        !.ops = @ + 1]
  /\ UNCHANGED << llmConfig, permissions, now, sessionState, toolCallState, loop, ep,
                  messages, ensured, dispatched, entryGuard, chats, epLog, provenance,
                  lastOp, tabUrl, currentPlan, exec, budget, warning, gw, gen, io, bus >>

\* llmChat is given the catalog; the model answers or asks for a tool by name
McpLoopChat ==
  /\ mcp.ops < MaxMcpOps
  /\ mcp.pc = "chat"
  /\ \E tool \in {"none", "mcp_echo", "mcp_sum"} :
       mcp' = [mcp EXCEPT !.pc = IF tool = "none" THEN "idle" ELSE "dispatch",
                          !.tool = tool, !.wire = << >>,
                          !.last = [kind |-> "chat", id |-> "none", ok |-> TRUE],
                          !.ops = @ + 1]
  /\ UNCHANGED << llmConfig, permissions, now, sessionState, toolCallState, loop, ep,
                  messages, ensured, dispatched, entryGuard, chats, epLog, provenance,
                  lastOp, tabUrl, currentPlan, exec, budget, warning, gw, gen, io, bus >>

\* executeToolCall, the MCP branch: the registry is loaded at the call
McpDispatch ==
  /\ mcp.pc = "dispatch"
  /\ \E first \in FetchOutcomes, second \in FetchOutcomes, call \in FetchOutcomes :
       LET k == McpServerOf(mcp.servers, mcp.tool)
           r == callMcpTool(mcp.servers[k].url, first, second, call)
       IN IF k = 0
            THEN mcp' = [mcp EXCEPT !.pc = "chat", !.wire = << >>,
                                    !.last = [kind |-> "call", id |-> "none", ok |-> FALSE]]
            ELSE mcp' = [mcp EXCEPT !.pc = "chat", !.wire = r.wire,
                                    !.last = [kind |-> "call", id |-> mcp.servers[k].id,
                                              ok |-> r.success]]
  /\ UNCHANGED << llmConfig, permissions, now, sessionState, toolCallState, loop, ep,
                  messages, ensured, dispatched, entryGuard, chats, epLog, provenance,
                  lastOp, tabUrl, currentPlan, exec, budget, warning, gw, gen, io, bus >>


\* ---------------------------------------------------- modules/event-bus.ts
createFreshSession ==
  [totalTokens |-> 0, contextUsed |-> 0, dataEntries |-> << >>, auditEvents |-> << >>]

\* the reduce of clearOrigin: the sum of tokenCount over a list of entries
RECURSIVE SumTokens(_)
SumTokens(entries) ==
  IF entries = << >> THEN 0 ELSE entries[1].tokenCount + SumTokens(Tail(entries))

clearOrigin_keepTotals(s, origin) ==
  [s EXCEPT !.dataEntries = SelectSeq(@, LAMBDA e : e.origin # origin)]

clearOrigin(s, origin) ==
  LET removedTokens == SumTokens(SelectSeq(s.dataEntries, LAMBDA e : e.origin = origin))
  IN [s EXCEPT !.dataEntries = SelectSeq(@, LAMBDA e : e.origin # origin),
               !.totalTokens = @ - removedTokens,
               !.contextUsed = @ - removedTokens]

\* emitEvent: a data entry when the event carries tokens, and always an audit event
EmitEvent ==
  /\ bus.ops < MaxBusOps
  /\ \E origin \in Origins, tokens \in {0, 3, 5} :
       LET entered == IF tokens > 0
                        THEN addDataEntry(bus.state,
                               [origin |-> origin, dataType |-> "page_load",
                                tokenCount |-> tokens, entryMethod |-> "page_load"])
                        ELSE bus.state
       IN bus' = [state |-> addAuditEvent(entered,
                              [type |-> "page_load", origin |-> origin,
                               detail |-> [tokens |-> tokens]]),
                  ops |-> bus.ops + 1, last |-> "emitEvent", origin |-> origin]
  /\ UNCHANGED << llmConfig, permissions, now, sessionState, toolCallState, loop, ep,
                  messages, ensured, dispatched, entryGuard, chats, epLog, provenance,
                  lastOp, tabUrl, currentPlan, exec, budget, warning, gw, gen, io, mcp >>

\* clearOrigin and clearSession
ClearOrigin ==
  /\ bus.ops < MaxBusOps
  /\ \E origin \in Origins :
       bus' = [state |-> clearOrigin(bus.state, origin), ops |-> bus.ops + 1,
               last |-> "clearOrigin", origin |-> origin]
  /\ UNCHANGED << llmConfig, permissions, now, sessionState, toolCallState, loop, ep,
                  messages, ensured, dispatched, entryGuard, chats, epLog, provenance,
                  lastOp, tabUrl, currentPlan, exec, budget, warning, gw, gen, io, mcp >>

ClearSession ==
  /\ bus.ops < MaxBusOps
  /\ bus' = [state |-> createFreshSession, ops |-> bus.ops + 1,
             last |-> "clearSession", origin |-> "none"]
  /\ UNCHANGED << llmConfig, permissions, now, sessionState, toolCallState, loop, ep,
                  messages, ensured, dispatched, entryGuard, chats, epLog, provenance,
                  lastOp, tabUrl, currentPlan, exec, budget, warning, gw, gen, io, mcp >>


Init ==
  /\ llmConfig = [provider |-> "ollama"]
  /\ permissions = << >>
  /\ now = TickMs
  /\ sessionState = [sessionId |-> TickMs, totalTokens |-> 0, contextUsed |-> 0,
                     dataEntries |-> << >>, auditEvents |-> << >>]
  /\ toolCallState = [running |-> FALSE, calls |-> << >>, finalAnswer |-> "",
                      error |-> NoError]
  /\ loop = IdleLoop
  /\ ep = NoEp
  /\ messages = << >>
  /\ ensured = {}
  /\ dispatched = {}
  /\ entryGuard = << >>
  /\ chats = << >>
  /\ epLog = {}
  /\ provenance = [t \in Triples |-> "none"]
  /\ lastOp = NoOp
  /\ tabUrl = [t \in Tabs |-> TabOrigin(t)]
  /\ currentPlan = NoPlan
  /\ exec = IdleExec
  /\ budget = [intents |-> 0, execs |-> 0, navs |-> 0]
  /\ warning = NotAsked
  /\ gw = IdleGw
  /\ gen = IdleGen
  /\ io = IdleIo
  /\ mcp = IdleMcp
  /\ bus = [state |-> createFreshSession, ops |-> 0, last |-> "none", origin |-> "none"]

\* the tab of the intent
TaskTabs == {1}

Next ==
  \/ loop.pc = "idle" /\ \E tabId \in TaskTabs : ToolCallTask(tabId)
  \/ PreRead
  \/ DirectReply
  \/ ChatReply
  \/ StartCall
  \/ EnsureCheck
  \/ DialogReply
  \/ Dispatch
  \/ McpCall
  \/ Result
  \/ loop.pc = "idle" /\ SwitchProvider

Spec == Init /\ [][Next]_vars

\* the tool loop with its awaits settling: llmChat, the decision surface, the
\* tab's answer to a routed tool and the MCP call each settle (weak fairness),
\* while nothing in lines 904-925 bounds the wait for the tab's answer to the
\* pre-read request, which gets no fairness
SpecLive ==
  /\ Spec
  /\ WF_vars(\E tabId \in TaskTabs : ToolCallTask(tabId))
  /\ WF_vars(DirectReply) /\ WF_vars(ChatReply) /\ WF_vars(StartCall)
  /\ WF_vars(EnsureCheck) /\ WF_vars(DialogReply) /\ WF_vars(Dispatch)
  /\ WF_vars(McpCall) /\ WF_vars(Result)

SpecPerm ==
  /\ Init
  /\ [][\/ \E type \in GrantTypes, scope \in Scopes, origin \in Origins, tabId \in Tabs :
             /\ Cardinality({ Triple(permissions[k].type, permissions[k].origin,
                                      permissions[k].tabId) :
                                 k \in 1..Len(permissions) }
                               \cup {Triple(type, origin, tabId)})
                  <= MaxGrants
             /\ GrantPermission(type, scope, origin, tabId)
        \/ \E type \in GrantTypes, origin \in Origins, tabId \in Tabs :
             RevokePermission(type, origin, tabId)
        \/ \E tabId \in Tabs : TabRemoved(tabId)
        \/ \E tabId \in Tabs : TabUpdated(tabId)
        \/ Tick]_vars

NextPlan ==
  \/ /\ exec.pc = "idle" /\ budget.intents < MaxIntents
     /\ \E tabId \in TaskTabs : CreatePlan(tabId)
  \/ PlanPageRead
  \/ PlanGenerated
  \/ /\ exec.pc = "idle" /\ budget.execs < MaxExecs
     /\ \E stepIdx \in DOMAIN currentPlan.steps, tabId \in TaskTabs :
          ExecuteStep(stepIdx, tabId)
  \/ StepEnsureCheck
  \/ StepDialogReply
  \/ StepTool
  \/ StepAnalysis
  \/ /\ exec.pc = "idle" /\ budget.navs < MaxNavs
     /\ \E tabId \in TaskTabs :
          \E origin \in Origins \ {tabUrl[tabId]} : Navigated(tabId, origin)
  \/ exec.pc = "idle" /\ CheckCrossOrigin
  \/ budget.intents = 0 /\ SwitchProvider

SpecPlan == Init /\ [][NextPlan]_vars

\* plan mode with the clock advancing between the steps of the first plan, so
\* that a stored session or site grant may have expired when the guard looks
SpecGuard ==
  /\ Init
  /\ [][\/ NextPlan
        \/ exec.pc = "idle" /\ budget.intents = 1 /\ budget.execs = 1 /\ Tick]_vars

\* plan mode with a TOOL_CALL_TASK message arriving while the first step of the
\* first plan is suspended at its await of the tab's reply: the message handler
\* has no check of a task in flight (lines 1202-1219)
SpecTwo ==
  /\ Init
  /\ [][\/ NextPlan
        \/ /\ exec.pc = "tool" /\ loop.pc = "idle"
           /\ budget.intents = 1 /\ budget.execs = 1
           /\ \E tabId \in TaskTabs : ToolCallTask(tabId)]_vars

\* the two ledgers: the background's session under plans and a TOOL_CALL_TASK
\* reset, and the event bus's session; they share no state, so a behaviour runs
\* one of them
SpecLedger ==
  /\ Init
  /\ [][\/ /\ bus.ops = 0 /\ exec.pc = "idle" /\ budget.intents < MaxIntents
           /\ \E tabId \in TaskTabs : CreatePlan(tabId)
        \/ PlanPageRead
        \/ PlanGenerated
        \/ /\ exec.pc = "idle" /\ budget.execs < MaxExecs
           /\ \E stepIdx \in DOMAIN currentPlan.steps, tabId \in TaskTabs :
                ExecuteStep(stepIdx, tabId)
        \/ StepEnsureCheck
        \/ StepDialogReply
        \/ StepTool
        \/ StepAnalysis
        \/ /\ exec.pc = "idle" /\ loop.pc = "idle" /\ budget.execs >= 1
           /\ \E tabId \in TaskTabs : ToolCallTask(tabId)
        \/ budget.intents = 0 /\ EmitEvent
        \/ budget.intents = 0 /\ ClearOrigin
        \/ budget.intents = 0 /\ ClearSession]_vars

\* the MCP registry's handlers, and a tool loop running beside them
SpecMcp ==
  /\ Init
  /\ [][\/ ConnectMcpServer
        \/ DeleteMcpServer
        \/ ToggleMcpServer
        \/ McpLoopStart
        \/ McpLoopChat
        \/ McpDispatch]_vars

\* one plan whose steps run on either tab; after the first step the setup may
\* switch the provider, the clock may advance and a tab may be closed
SpecAuto ==
  /\ Init
  /\ [][\/ /\ exec.pc = "idle" /\ budget.intents < 1
           /\ \E tabId \in TaskTabs : CreatePlan(tabId)
        \/ PlanPageRead
        \/ PlanGenerated
        \/ /\ exec.pc = "idle" /\ budget.execs < MaxExecs
           /\ \E stepIdx \in DOMAIN currentPlan.steps, tabId \in Tabs :
                ExecuteStep(stepIdx, tabId)
        \/ StepEnsureCheck
        \/ StepDialogReply
        \/ StepTool
        \/ StepAnalysis
        \/ exec.pc = "idle" /\ budget.execs = 1 /\ SwitchProvider
        \/ exec.pc = "idle" /\ budget.execs = 1 /\ Tick
        \/ exec.pc = "idle" /\ budget.execs = 1 /\ \E tabId \in Tabs : TabRemoved(tabId)]_vars

\* the operations of lib/permissions.ts two at a time, each a load and a save
\* with the other's steps in between: ensurePermission's grant runs while the
\* listeners of tabs.onRemoved and tabs.onUpdated, which nothing awaits, run
SpecRace ==
  /\ Init
  /\ [][\/ \E i \in {1, 2},
                op \in { [kind |-> "grant", type |-> "page_read", scope |-> sc,
                          origin |-> "a.example", tabId |-> t] :
                           sc \in {"page", "session"}, t \in Tabs }
                       \cup { [kind |-> k, type |-> "page_read", scope |-> "",
                                origin |-> "a.example", tabId |-> t] :
                                k \in {"revoke", "revokeAll", "revokePage"}, t \in Tabs } :
             OpLoad(i, op)
        \/ \E i \in {1, 2} : OpSave(i)
        \/ NewRound]_vars

SpecChat ==
  /\ Init
  /\ [][\/ \E msgs \in Conversations, tools \in ToolSchemas : GwCall(msgs, tools)
        \/ GwFirst
        \/ GwRetry]_vars

\* generatePlan alone; an intent is what createFallbackPlan reads of it: whether a
\* find word matches and whether the target after it is longer than 2 characters
SpecGen ==
  /\ Init
  /\ [][\/ \E intent \in { [find |-> FALSE, long |-> TRUE], [find |-> TRUE, long |-> TRUE],
                             [find |-> TRUE, long |-> FALSE] },
                model \in {"", "llama3.2"} : GenCall(intent, model)
        \/ GenLlm
        \/ GenTimeout]_vars

\* --------------------------------------------------------------- properties
AuditEvents == sessionState.auditEvents

EventsOfType(type) == SelectSeq(AuditEvents, LAMBDA e : e.type = type)

\* events of a type before position k of the audit trail
CountBefore(k, type) == Cardinality({j \in 1..(k - 1) : AuditEvents[j].type = type})

\* the records of the calls made from the loop (the pre-read's has iteration 0)
LoopCalls == SelectSeq(toolCallState.calls, LAMBDA c : c.iteration > 0)

ToolChats == SelectSeq(chats, LAMBDA c : c.tools)

\* tool calls carried by the replies so far
RequestedCalls ==
  Cardinality({ << k, j >> \in (1..Len(chats)) \X (1..(1 + MaxExtraCalls)) :
                  j <= chats[k].ncalls })

LoopActive == loop.pc \notin {"idle", "done"}

\* the loop ran through its last iteration and no dispatch threw
RanAllIterations ==
  /\ loop.pc = "done"
  /\ Len(SelectSeq(chats, LAMBDA c : c.tools /\ c.reply = "toolCalls")) = maxIterations
  /\ toolCallState.error # DispatchError

\* C1: every tool dispatch of a task (a READ_PAGE / FIND_ON_PAGE / CLICK_ELEMENT /
\* FILL_FORM message, a created tab, an MCP call) that declares a capability comes
\* after ensurePermission returned true for that capability in the same task.
C1_DispatchAfterEnsure ==
  \A d \in dispatched : d.required # "none" => d.ensured

\* C2: every DataEntry that records a tool invocation was appended after the guard
\* granted the capabilities the tool declares; an invocation the guard did not
\* grant leaves no DataEntry.
C2_EntryAfterGrant ==
  \A k \in 1..Len(entryGuard) :
     entryGuard[k].declared # {} => entryGuard[k].guard = "granted"

\* C3: under a hosted provider no llmChat call carries page content unless
\* ensurePermission returned true for data_send before the call.
C3_HostedChatAfterDataSend ==
  \A k \in 1..Len(chats) :
     (chats[k].page /\ chats[k].provider # "ollama") => chats[k].dataSend

\* C4: every tool_call_result event is preceded in the audit trail by exactly one
\* tool_call_start event, of the same tool and the same iteration, that no earlier
\* result has matched: the n-th result closes the n-th start.
C4_ResultClosesStart ==
  \A k \in 1..Len(AuditEvents) :
     AuditEvents[k].type = "tool_call_result" =>
       LET n == CountBefore(k, "tool_call_result") + 1
           starts == EventsOfType("tool_call_start")
       IN /\ CountBefore(k, "tool_call_start") = n
          /\ starts[n].detail.tool = AuditEvents[k].detail.tool
          /\ n <= Len(LoopCalls)
          /\ LoopCalls[n].toolName = AuditEvents[k].detail.tool
          /\ LoopCalls[n].iteration = starts[n].detail.iteration

\* a reply with the same tool twice has been carried out: two results of one
\* tool in one iteration
C4_Witness ==
  /\ Len(EventsOfType("tool_call_result")) >= 2
  /\ \E m, n \in 1..Len(LoopCalls) :
       /\ m < n
       /\ LoopCalls[m].toolName = LoopCalls[n].toolName
       /\ LoopCalls[m].iteration = LoopCalls[n].iteration

\* C5: runToolCallLoop issues at most 5 tool-enabled llmChat calls; while it runs
\* its iteration index stays below 5 and it has a step to take, and when it has
\* stopped running is false.
C5_AtMostFiveToolChats ==
  /\ Len(ToolChats) <= maxIterations
  /\ LoopActive => (loop.i < maxIterations /\ toolCallState.running /\ ENABLED Next)
  /\ loop.pc = "done" => ~toolCallState.running

\* the cap was hit: five tool-enabled chats, the loop has stopped
C5_Witness ==
  /\ loop.pc = "done"
  /\ Len(ToolChats) = maxIterations
  /\ loop.i = maxIterations
  /\ ~toolCallState.running

C7_OneGrantPerTriple ==
  /\ \A j, k \in 1..Len(permissions) :
       SameTriple(permissions[j], permissions[k].type, permissions[k].origin,
                  permissions[k].tabId) => j = k
  /\ lastOp.kind = "grant" =>
       \E k \in 1..Len(permissions) :
          /\ SameTriple(permissions[k], lastOp.type, lastOp.origin, lastOp.tabId)
          /\ permissions[k].scope = lastOp.scope
          /\ permissions[k].grantedAt = lastOp.at
          /\ permissions[k].expiresAt =
               (IF lastOp.scope = "page" THEN Null ELSE lastOp.at + 30 * 60 * 1000)

\* a triple granted again, later, next to the grant of another triple
C7_Witness ==
  /\ lastOp.kind = "grant"
  /\ lastOp.had
  /\ lastOp.at > TickMs
  /\ Len(permissions) = 2

\* C8: a stored grant of scope page has expiresAt null; one of scope site or
\* session has expiresAt = grantedAt + 30 minutes, to the millisecond.
C8_ExpiryByScope ==
  \A k \in 1..Len(permissions) :
     /\ permissions[k].scope = "page" => permissions[k].expiresAt = Null
     /\ permissions[k].scope \in {"site", "session"} =>
          permissions[k].expiresAt = permissions[k].grantedAt + 1800000

\* a page grant and a site grant are stored together
C8_Witness ==
  \E j, k \in 1..Len(permissions) :
     /\ permissions[j].scope = "page"
     /\ permissions[k].scope = "site"
     /\ permissions[k].grantedAt > permissions[j].grantedAt

\* C9: an ensurePermission call that finds no grant returns true without an answer
\* of the decision surface only for page_read under the local provider; any other
\* grant it creates follows a granted answer.
C9_OnlyReadAutoGranted ==
  \A c \in epLog :
     ~c.existing =>
       /\ (c.result /\ c.dialog # "granted") => (c.type = "page_read" /\ c.isLocal)
       /\ (c.created /\ ~(c.type = "page_read" /\ c.isLocal)) => c.dialog = "granted"

\* C10: every stored grant of page_action or data_send was created after the
\* decision surface answered granted.
C10_WriteGrantsApproved ==
  \A k \in 1..Len(permissions) :
     permissions[k].type \in {"page_action", "data_send"} =>
       provenance[Triple(permissions[k].type, permissions[k].origin,
                         permissions[k].tabId)] = "user"


\* the last event of the audit trail
LastEvent(s) == s.auditEvents[Len(s.auditEvents)]

\* the stored grants other than the one of a triple
OtherGrants(perms, type, origin, tabId) ==
  SelectSeq(perms, LAMBDA p : ~(p.type = type /\ p.origin = origin /\ p.tabId = tabId))

C12_ExistingGrantReturnsTrue ==
  [][ (/\ exec.pc = "ensure"
       /\ \E k \in 1..Len(permissions) :
            LET p == permissions[k] IN
            /\ p.type = ep.type
            /\ (p.expiresAt = Null \/ p.expiresAt >= now)
            /\ \/ p.scope = "session"
               \/ p.scope = "site" /\ p.origin = ep.origin
               \/ p.scope = "page" /\ p.origin = ep.origin /\ p.tabId = ep.tabId) =>
        /\ permissions' = permissions
        /\ provenance' = provenance
        /\ sessionState' = sessionState
        /\ exec'.pc \in {"tool", "ensure"}
        /\ exec'.dialog = "none"
        /\ ep.type \in ensured'
        /\ currentPlan' = currentPlan
        /\ << llmConfig, now, dispatched, chats, tabUrl >>' =
             << llmConfig, now, dispatched, chats, tabUrl >>
    ]_vars

\* the guard answered from a stored grant while another stored grant had expired
C12_Witness ==
  /\ \E c \in epLog : c.existing /\ c.result
  /\ \E k \in 1..Len(permissions) :
       permissions[k].expiresAt # Null /\ permissions[k].expiresAt < now


\* the event closes a request: permission_denied, or permission_granted
IsDecision(e) == e.type \in {"permission_granted", "permission_denied"}

\* a decision that did not come from the auto-grant of page_read under the local
\* provider, which asks nobody (lines 325-338)
IsAskedDecision(e) == IsDecision(e) /\ e.detail.userAction # "auto"

\* positions before k of the trail that hold a request for the capability and
\* origin of event e
RequestsBefore(k, e) ==
  { j \in 1..(k - 1) : /\ AuditEvents[j].type = "permission_requested"
                       /\ AuditEvents[j].origin = e.origin
                       /\ AuditEvents[j].detail.permType = e.detail.permType }

\* positions before k that hold a decision for the capability and origin of e
DecisionsBefore(k, e) ==
  { j \in 1..(k - 1) : /\ IsDecision(AuditEvents[j])
                       /\ AuditEvents[j].origin = e.origin
                       /\ AuditEvents[j].detail.permType = e.detail.permType }

\* C13 as stated: every permission_granted and every permission_denied event of
\* the audit trail is preceded by a permission_requested event for the same
\* capability and origin that no earlier granted/denied event has matched.
C13_EveryDecisionRequested ==
  \A k \in 1..Len(AuditEvents) :
    IsDecision(AuditEvents[k]) =>
      Cardinality(RequestsBefore(k, AuditEvents[k]))
        > Cardinality(DecisionsBefore(k, AuditEvents[k]))

\* C13, amended: every permission_denied event and every permission_granted event
\* other than the auto-grant of page_read under the local provider is preceded by
\* a permission_requested event for the same capability and origin that no earlier
\* such event has matched; the auto-grant is logged without a request of its own.
C13_AskedDecisionRequested ==
  /\ \A k \in 1..Len(AuditEvents) :
       IsAskedDecision(AuditEvents[k]) =>
         Cardinality(RequestsBefore(k, AuditEvents[k]))
           > Cardinality({ j \in DecisionsBefore(k, AuditEvents[k]) :
                             IsAskedDecision(AuditEvents[j]) })
  /\ \A k \in 1..Len(AuditEvents) :
       (IsDecision(AuditEvents[k]) /\ ~IsAskedDecision(AuditEvents[k])) =>
         /\ AuditEvents[k].detail.permType = "page_read"
         /\ AuditEvents[k].detail.autoGranted

\* one trail holds an auto-grant without request and a denial after its request
C13_Witness ==
  \E i, k \in 1..Len(AuditEvents) :
    /\ AuditEvents[i].type = "permission_granted"
    /\ AuditEvents[i].detail.userAction = "auto"
    /\ AuditEvents[k].type = "permission_denied"
    /\ RequestsBefore(k, AuditEvents[k]) # {}


\* C14: every ensurePermission call that returns false (the step is skipped) has
\* appended, before it returns, an audit event for its capability that records
\* the denial or the failure of the decision surface.
C14_RefusalAlwaysLogged ==
  [][ (exec.pc = "dialog" /\ exec'.pc = "idle") =>
        /\ Len(sessionState'.auditEvents) = Len(AuditEvents) + 1
        /\ LastEvent(sessionState').type # "permission_requested"
        /\ LastEvent(sessionState').detail.permType = ep.type
    ]_vars


\* a finished tool-loop task under the local provider in which the first
\* tool-enabled chat asked for read_page once and the second gave the answer
ReadOnceThenAnswered ==
  /\ loop.pc = "done"
  /\ llmConfig.provider = "ollama"
  /\ Len(ToolChats) = 2
  /\ ToolChats[1].reply = "toolCalls" /\ ToolChats[1].ncalls = 1
  /\ ToolChats[2].reply = "content"
  /\ Len(LoopCalls) = 1
  /\ LoopCalls[1].toolName = "read_page"

FirstHostedReadStep ==
  /\ llmConfig.provider # "ollama"
  /\ budget.intents = 1 /\ budget.execs = 1
  /\ \E k \in 1..Len(currentPlan.steps) :
       /\ currentPlan.steps[k].status # "pending"
       /\ currentPlan.steps[k].requiredPermission = "page_read"

\* C16: under a hosted provider and an empty grant list, a step that needs
\* page_read asks the decision surface exactly once for page_read; when the user
\* denies, the step ends skipped with only "(Permission denied by user)" as its
\* output, no tool message has gone to the tab for it, no DataEntry exists, the
\* grant list is still empty and executeStep has returned normally (the plan has
\* no failed or running step and the denial is logged).
C16_DeniedReadStepSkipped ==
  FirstHostedReadStep =>
    /\ ~(exec.pc = "ensure" /\ exec.stage = "tool") =>
         Cardinality({ k \in 1..Len(AuditEvents) :
                         /\ AuditEvents[k].type = "permission_requested"
                         /\ AuditEvents[k].detail.permType = "page_read" }) = 1
    /\ (exec.pc = "idle" /\ exec.dialog = "denied"
          /\ \E c \in epLog : c.type = "page_read" /\ c.dialog = "denied") =>
         /\ \A k \in 1..Len(currentPlan.steps) :
              currentPlan.steps[k].status # "pending" =>
                /\ currentPlan.steps[k].status = "skipped"
                /\ currentPlan.steps[k].llmOutput = "(Permission denied by user)"
                /\ currentPlan.steps[k].origin = ""
         /\ \A d \in dispatched : d.preread
         /\ sessionState.dataEntries = << >>
         /\ permissions = << >>
         /\ [k \in 1..Len(AuditEvents) |-> AuditEvents[k].type]
              = << "task_started", "permission_requested", "permission_denied" >>

\* the user denied page_read for the first step under a hosted provider
C16_Witness ==
  /\ FirstHostedReadStep
  /\ exec.pc = "idle" /\ exec.dialog = "denied"
  /\ \E c \in epLog : c.type = "page_read" /\ c.dialog = "denied"
  /\ \E k \in 1..Len(currentPlan.steps) : currentPlan.steps[k].status = "skipped"


\* C17: when the first request of a call that carries tool schemas is answered
\* with status 400, llmChat sends exactly one more request, without tools and
\* with the tool catalog appended to the system message; when the reply to that
\* request embeds a well-formed tool-call object, llmChat returns it as the one
\* entry of toolCalls, as a native call is returned; when the retry fails, llmChat
\* throws and sends nothing more.
C17_RetryProceedsAsNative ==
  (gw.pc = "done" /\ gw.tools # << >> /\ gw.first = 400) =>
    /\ Len(gw.sent) = 2
    /\ gw.sent[2].tools = << >>
    /\ Len(gw.sent[2].messages) = Len(gw.messages)
    /\ \A k \in 1..Len(gw.messages) :
         IF gw.messages[k].role = "system"
         THEN /\ Len(gw.sent[2].messages[k].content) = Len(gw.messages[k].content) + 1
              /\ gw.sent[2].messages[k].content[Len(gw.messages[k].content) + 1]
                   .toolDescriptions = gw.tools
         ELSE gw.sent[2].messages[k] = gw.messages[k]
    /\ gw.retry # 200 => gw.out.kind = "throw"
    /\ gw.retry = 200 =>
         \A obj \in { << "mk", "name", "}" >>,
                      << "mk", "name", "args{", "}", "}" >>,
                      << "mk", "name", "args{", "val", "}", "}" >>,
                      << "mk", "name", "args{", "val}", "}", "}" >> } :
           (\E i \in 1..(Len(gw.text) - Len(obj) + 1) :
              SubSeq(gw.text, i, i + Len(obj) - 1) = obj) =>
             /\ gw.out.kind = "toolCalls"
             /\ gw.out.toolCalls = << ReplyCall("navigate", Len(obj) = 6) >>


\* C18: detectCrossOrigin gives no warning when fewer than two distinct origins
\* are involved: when no completed step has an origin, or when the origins of the
\* completed steps already include the current origin, that of the plan's page.
C18_NoWarningBelowTwoOrigins ==
  (currentPlan.made /\ (\/ CompletedOrigins(currentPlan) = {}
                        \/ currentPlan.url \in CompletedOrigins(currentPlan))) =>
    /\ ~detectCrossOrigin(currentPlan).warn
    /\ (exec.pc = "idle" /\ warning.asked) => ~warning.answer.warn

\* CHECK_CROSS_ORIGIN was answered for a plan whose completed steps have the
\* origin of the plan's page
C18_Witness ==
  /\ warning.asked
  /\ exec.pc = "idle"
  /\ CompletedOrigins(currentPlan) # {}
  /\ currentPlan.url \in CompletedOrigins(currentPlan)


\* C19: in plan mode, once steps of one origin have completed and the tab of the
\* plan shows a page of a second origin, CHECK_CROSS_ORIGIN answers with a warning
\* that names every origin now in context: those of the completed steps and the
\* one the tab shows.
C19_WarningOnSecondOrigin ==
  \A tabId \in TaskTabs :
    (/\ currentPlan.made /\ currentPlan.url # ""
     /\ exec.pc = "idle" /\ warning.asked
     /\ CompletedOrigins(currentPlan) # {}
     /\ tabUrl[tabId] \notin CompletedOrigins(currentPlan)) =>
      /\ warning.answer.warn
      /\ warning.answer.origins = CompletedOrigins(currentPlan) \cup {tabUrl[tabId]}


\* C20: the session is reset as a whole at the start of an intent: the step that
\* starts an intent, and any step in which the entries or the events get fewer,
\* a counter gets smaller or the session id changes, leaves no DataEntry, exactly
\* one audit event, which is task_started, both counters at 0 and the id made
\* from the time of the reset.
C20_SessionResetAsAWhole ==
  [][ (\/ budget'.intents # budget.intents
       \/ Len(sessionState'.dataEntries) < Len(sessionState.dataEntries)
       \/ Len(sessionState'.auditEvents) < Len(AuditEvents)
       \/ sessionState'.totalTokens < sessionState.totalTokens
       \/ sessionState'.contextUsed < sessionState.contextUsed
       \/ sessionState'.sessionId # sessionState.sessionId) =>
        /\ budget'.intents = budget.intents + 1
        /\ sessionState'.dataEntries = << >>
        /\ Len(sessionState'.auditEvents) = 1
        /\ sessionState'.auditEvents[1].type = "task_started"
        /\ sessionState'.totalTokens = 0
        /\ sessionState'.contextUsed = 0
        /\ sessionState'.sessionId = now
    ]_vars

\* a second intent has started, at a later time than the first and after a step
\* of the first plan ran: the session is fresh and has a new id
C20_Witness ==
  /\ budget.intents = 2
  /\ budget.execs > 0
  /\ sessionState.sessionId # TickMs
  /\ sessionState.dataEntries = << >>
  /\ Len(AuditEvents) = 1

\* C21: the audit log is append-only between two session resets: every step
\* either leaves sessionState.auditEvents as it was or extends it at the end,
\* the events already logged keeping their place and content; the one step
\* that does otherwise is the session reset of a new intent, which leaves the
\* new intent's task_started event alone in the log.
C21_AuditAppendOnly ==
  [][LET old == sessionState.auditEvents
         new == sessionState'.auditEvents
     IN  \/ /\ Len(new) >= Len(old)
            /\ SubSeq(new, 1, Len(old)) = old
         \/ /\ budget'.intents = budget.intents + 1
            /\ Len(new) = 1
            /\ new[1].type = "task_started"]_vars

\* a second intent has reset a used log, and the log has grown again since
C21_Witness ==
  /\ budget.intents = 2
  /\ Len(sessionState.auditEvents) >= 3
  /\ sessionState.auditEvents[1].type = "task_started"

\* C22: at most one task is in flight per session: while a plan step (or a
\* tool loop) is suspended at an await, no second task resets the session or
\* appends to the same ledger, so the log of a session that a TOOL_CALL_TASK
\* intent started holds no event of a plan step, and no plan step is in flight
\* while a tool loop is.
C22_OneTaskInFlight ==
  /\ ~(LoopActive /\ exec.pc # "idle")
  /\ (Len(AuditEvents) > 0 /\ AuditEvents[1].detail.mode = "tool_call")
       => \A k \in 1..Len(AuditEvents) :
            AuditEvents[k].type \notin {"tool_call", "task_step"}

\* C23: an exception inside a tool-loop iteration ends the loop at once in the
\* errored state: error holds the failure, running is false, finalAnswer is
\* empty, and no chat or dispatch follows; a tool-enabled chat that threw is
\* the last chat of the task and its error is the one recorded.
C23_ExceptionEndsLoop ==
  /\ toolCallState.error # NoError
       => /\ loop.pc = "done"
          /\ ~toolCallState.running
          /\ toolCallState.finalAnswer = ""
          /\ \A k \in 1..Len(chats) : chats[k].reply # "pending"
  /\ \A k \in 1..Len(chats) :
       (chats[k].tools /\ chats[k].reply = "throw")
         => /\ k = Len(chats)
            /\ toolCallState.error = LlmError(chats[k].provider)

\* a dispatch was rejected by the tab after an earlier call had completed
C23_Witness ==
  /\ toolCallState.error = DispatchError
  /\ Len(toolCallState.calls) >= 1
  /\ loop.i >= 1

\* C24: a failure of the tool loop still leaves an audit event: the step that
\* puts the loop in the errored state appends an event to the audit trail, and
\* in the trail of a loop that has ended every tool_call_start is matched by a
\* tool_call_result.
C24_FailureLeavesEvent ==
  [][LET new == sessionState'.auditEvents
         starts == SelectSeq(new, LAMBDA e : e.type = "tool_call_start")
         results == SelectSeq(new, LAMBDA e : e.type = "tool_call_result")
     IN  /\ (toolCallState.error = NoError /\ toolCallState'.error # NoError)
              => Len(new) > Len(sessionState.auditEvents)
         /\ loop'.pc = "done" => Len(starts) = Len(results)]_vars

\* C25: the direct-answer chat is issued only with a non-empty pre-read
\* snapshot and carries no tool schemas; when it settles, either its reply is
\* longer than 10 characters and does not begin with the tool-call marker and
\* becomes the final answer of a task that ends answered with no tool-loop
\* iteration, or (short, marker-led or empty reply, failed call) the first
\* tool-enabled chat of the loop is issued and toolCallState is left as it was.
C25_DirectAnswerGate ==
  [][LET answer == toolCallState'.finalAnswer IN
     /\ loop'.pc = "direct"
          => /\ loop'.pageContext
             /\ ~chats'[Len(chats')].tools
     /\ (loop.pc = "preread" /\ ~loop'.pageContext) => loop'.pc = "chat"
     /\ loop.pc = "direct"
          => \/ /\ loop'.pc = "done"
                /\ chats' = << [chats[1] EXCEPT !.reply = "content"] >>
                /\ ContentLength(answer) > 10
                /\ ~StartsWithMarker(answer)
                /\ ~toolCallState'.running
                /\ toolCallState'.error = NoError
                /\ loop'.i = 0
             \/ /\ loop'.pc = "chat"
                /\ loop'.i = 0
                /\ toolCallState' = toolCallState
                /\ Len(chats') = 2
                /\ chats'[1].reply # "pending"
                /\ chats'[2].tools
                /\ chats'[2].reply = "pending"]_vars

\* the task ended on the direct answer, with the snapshot as its only record
C25_Witness ==
  /\ loop.pc = "done"
  /\ Len(chats) = 1
  /\ ~chats[1].tools
  /\ toolCallState.finalAnswer = "Page is ok."
  /\ Len(toolCallState.calls) = 1

\* C26: the pre-read never blocks the task: whether the tab answers the
\* snapshot request, fails or stays silent, a tool task that has issued its
\* pre-read eventually reaches a terminal state.
C26_PreReadNeverBlocks == (loop.pc = "preread") ~> (loop.pc = "done")

\* C27: generatePlan always returns a plan: without a model, when the timer
\* settles the race first, when llmChat fails and when the reply holds no JSON
\* array of steps that parses, the plan is the one createFallbackPlan builds for
\* the intent; a reply that wins the race with an array of steps gives those
\* steps; and a reply that arrives after the timer leaves the returned plan as
\* it was.
C27_FallbackOnEveryFailure ==
  LET fallback == createFallbackPlan(gen.intent.find /\ gen.intent.long)
      text == gen.reply.content
      inside == { k \in 1..Len(text) :
                    /\ \E i \in 1..(k - 1) : text[i] = "["
                    /\ \E j \in (k + 1)..Len(text) : text[j] = "]" }
      hasArray == \E i, j \in 1..Len(text) : i < j /\ text[i] = "[" /\ text[j] = "]"
      parses == hasArray /\ \A k \in inside : text[k] \in {"read", "nav", "odd", "proto"}
  IN /\ gen.pc \in {"idle", "race", "returned"}
     /\ gen.pc = "race" <=> (gen.llm = "pending" /\ gen.timer = "armed")
     /\ gen.pc = "returned"
          => /\ gen.model = "" => (gen.plan = fallback /\ gen.llm = "none")
             /\ gen.first = "timer" => gen.plan = fallback
             /\ (gen.first = "llm" /\ gen.reply.kind = "throw") => gen.plan = fallback
             /\ (gen.first = "llm" /\ gen.reply.kind = "content" /\ ~parses)
                  => gen.plan = fallback
             /\ (gen.first = "llm" /\ gen.reply.kind = "content" /\ parses)
                  => /\ Len(gen.plan) = Cardinality(inside)
                     /\ \A k \in 1..Len(gen.plan) : gen.plan[k].status = "pending"

\* the timer won the race and a reply with a well-formed plan arrived afterwards
C27_Witness ==
  /\ gen.pc = "returned"
  /\ gen.first = "timer"
  /\ gen.llm = "settled"
  /\ gen.reply.content = << "[", "read", "nav", "]" >>
  /\ gen.plan = createFallbackPlan(TRUE)

C29_DenialIsAnOutcome ==
  [][LET old == sessionState.auditEvents
         new == sessionState'.auditEvents
         calls == toolCallState'.calls
     IN  /\ (Len(new) = Len(old) + 1 /\ new[Len(new)].type = "permission_denied")
              => /\ loop'.pc = "result"
                 /\ loop'.result = "denied"
                 /\ dispatched' = dispatched
                 /\ toolCallState' = toolCallState
                 /\ toolCallState.error = NoError
         /\ (loop.pc = "result" /\ loop.result = "denied")
              => /\ messages' = messages \o << [role |-> "assistant", about |-> loop.tool.name],
                                               [role |-> "user", about |-> "denied"] >>
                 /\ Len(calls) = Len(toolCallState.calls) + 1
                 /\ calls[Len(calls)].toolName = loop.tool.name
                 /\ calls[Len(calls)].result = "denied"
                 /\ new = Append(old, ToolCallResultEvent(loop.tool.name, FALSE))
                 /\ dispatched' = dispatched
                 /\ toolCallState'.error = NoError
                 /\ \/ loop'.pc = "call" /\ Len(loop.queue) > 1
                    \/ /\ loop'.pc = "chat" /\ loop'.i = loop.i + 1
                       /\ chats'[Len(chats')].reply = "pending"
                    \/ /\ loop'.pc = "done" /\ loop.i + 1 = maxIterations
                       /\ toolCallState'.finalAnswer = Sentinel]_vars

\* a denied call was recorded and the loop went on to answer in a later chat
C29_Witness ==
  /\ \E k \in 1..Len(toolCallState.calls) : toolCallState.calls[k].result = "denied"
  /\ \E k \in 1..Len(AuditEvents) : AuditEvents[k].type = "permission_denied"
  /\ loop.pc = "done"
  /\ toolCallState.error = NoError
  /\ toolCallState.finalAnswer = "Page is ok."

\* C30: the parser of a plain-text reply starts at the first occurrence of the
\* marker {"tool" and scans forward counting braces; it gives a tool call only
\* if the count comes back to zero before the text ends and the object between
\* the marker and that brace parses with a non-empty tool field; for every
\* other reply (no marker, braces that do not balance, text that is no JSON, an
\* empty tool) llmChat returns no tool call and the text as content, and it
\* never throws.
C30_FallbackParser ==
  LET text == gw.text
      marks == { k \in 1..Len(text) : text[k] = "mk" }
      m == IF marks = {} THEN 0 ELSE CHOOSE k \in marks : \A j \in marks : k <= j
      depth(k) == Cardinality({ j \in m..k : text[j] \in {"mk", "args{"} })
                    - Cardinality({ j \in m..k : text[j] \in {"}", "val}"} })
      ends == { k \in m..Len(text) : m # 0 /\ text[k] \in {"}", "val}"} /\ depth(k) = 0 }
      e == IF ends = {} THEN 0 ELSE CHOOSE k \in ends : \A j \in ends : k <= j
      object == IF e = 0 THEN << >> ELSE SubSeq(text, m, e)
      wellFormed == object \in { << "mk", "name", "}" >>,
                                 << "mk", "name", "args{", "}", "}" >>,
                                 << "mk", "name", "args{", "val", "}", "}" >> }
  IN (/\ gw.pc = "done"
      /\ \/ gw.retry = 200
         \/ gw.first = 200 /\ gw.tools # << >> /\ text # << >>)
       => IF wellFormed
          THEN gw.out = [kind |-> "toolCalls", content |-> << >>,
                         toolCalls |-> << ReplyCall("navigate", Len(object) = 6) >>]
          ELSE gw.out = [kind |-> "content", content |-> text, toolCalls |-> << >>]

\* the retry was answered with prose around an object with nested braces, and
\* the object came back as the tool call
C30_Witness ==
  /\ gw.pc = "done"
  /\ gw.retry = 200
  /\ gw.text = << "say", "mk", "name", "args{", "val", "}", "}", "say" >>
  /\ gw.out.kind = "toolCalls"

\* C31: checkPermission(type, origin, tab) returns a grant exactly when the
\* store holds a grant of that type that is not expired (expiresAt null or not
\* before now) and whose scope covers the request: page scope with the same tab
\* and origin, site scope with the same origin, session scope always; the grant
\* returned is such a grant, and getActivePermissions returns no expired grant.
C31_LookupByScopeAndExpiry ==
  LET live(p) == p.expiresAt = Null \/ p.expiresAt >= now
      covers(p, origin, tabId) ==
        \/ p.scope = "page" /\ p.tabId = tabId /\ p.origin = origin
        \/ p.scope = "site" /\ p.origin = origin
        \/ p.scope = "session"
      stored == { permissions[k] : k \in 1..Len(permissions) }
  IN /\ \A type \in PermTypes, origin \in Origins, tabId \in Tabs :
          LET found == checkPermission(permissions, type, origin, tabId, now) IN
          /\ found # NoGrant
               <=> \E p \in stored : p.type = type /\ live(p) /\ covers(p, origin, tabId)
          /\ found # NoGrant
               => /\ found \in stored
                  /\ found.type = type /\ live(found) /\ covers(found, origin, tabId)
     /\ \A tabId \in Tabs \cup {0} :
          LET active == getActivePermissions(permissions, tabId, now) IN
          \A k \in 1..Len(active) :
            /\ live(active[k])
            /\ active[k] \in stored
            /\ tabId # 0 => active[k].tabId = tabId

\* the store holds an expired site grant, which no lookup returns, and a live
\* session grant of another tab, which the lookup for tab 1 returns
C31_Witness ==
  /\ \E k \in 1..Len(permissions) :
       /\ permissions[k].scope = "site"
       /\ permissions[k].expiresAt < now
       /\ permissions[k].type = "page_action"
       /\ checkPermission(permissions, "page_action", permissions[k].origin, 1, now) = NoGrant
  /\ LET found == checkPermission(permissions, "page_read", "a.example", 1, now)
     IN found # NoGrant /\ found.scope = "session" /\ found.tabId = 2
  /\ Len(getActivePermissions(permissions, 0, now)) = 1

\* C32: a navigation of tab t removes exactly the page-scoped grants with
\* tabId t: the site- and session-scoped grants and the grants of other tabs
\* stay as they were; closing tab t removes exactly the grants with tabId t, of
\* every scope, and the grants of other tabs stay as they were.
C32_TabEventsRevokeExactly ==
  [][LET t == lastOp'.tabId
         old == { permissions[k] : k \in 1..Len(permissions) }
         new == { permissions'[k] : k \in 1..Len(permissions') }
         gone == IF lastOp'.kind = "updated"
                 THEN { p \in old : p.scope = "page" /\ p.tabId = t }
                 ELSE { p \in old : p.tabId = t }
     IN  (permissions' # permissions \/ lastOp' # lastOp)
            /\ lastOp'.kind \in {"updated", "removed"}
           => /\ new = old \ gone
              /\ Len(permissions') = Len(permissions) - Cardinality(gone)
              /\ lastOp'.had <=> gone # {}]_vars

\* tab 1 has navigated: its page grant is gone, its session grant is kept
C32_Witness ==
  /\ lastOp.kind = "updated"
  /\ lastOp.tabId = 1
  /\ lastOp.had
  /\ \E k \in 1..Len(permissions) :
       permissions[k].tabId = 1 /\ permissions[k].scope = "session"

\* C33: the grant store loses no update under interleaving: when two
\* operations on the stored list have both returned, the list equals the result
\* of running the two one after the other, in one order or the other, on the
\* list as it was when they started.
C33_NoLostUpdate ==
  (\A i \in {1, 2} : io.ops[i].pc = "done")
    => \/ permissions = SavedBy(io.ops[2].op, SavedBy(io.ops[1].op, io.base, now), now)
       \/ permissions = SavedBy(io.ops[1].op, SavedBy(io.ops[2].op, io.base, now), now)

\* C34: the auto-grant of page_read under the local provider is stored with
\* session scope and expires 30 minutes after it was made; while it is stored
\* and not expired, the lookup for page_read succeeds for every origin and every
\* tab, and a call of ensurePermission for page_read returns true without a
\* request to the decision surface, without an audit event and without a change
\* of the store, whichever provider is configured by then.
C34_AutoGrantCoversSession ==
  [][LET autos(perms, prov) ==
           { k \in 1..Len(perms) :
               prov[Triple(perms[k].type, perms[k].origin, perms[k].tabId)] = "auto" }
         live == { k \in autos(permissions, provenance) : permissions[k].expiresAt >= now }
     IN  /\ \A k \in autos(permissions', provenance') :
              /\ permissions'[k].type = "page_read"
              /\ permissions'[k].scope = "session"
              /\ permissions'[k].expiresAt = permissions'[k].grantedAt + 30 * 60 * 1000
         /\ live # {}
              => /\ \A origin \in Origins \cup {"unknown"}, tabId \in Tabs :
                      checkPermission(permissions, "page_read", origin, tabId, now) # NoGrant
                 /\ (exec.pc = "ensure" /\ ep.type = "page_read" /\ exec' # exec)
                      => /\ sessionState' = sessionState
                         /\ permissions' = permissions
                         /\ exec'.pc \in {"tool", "ensure"}
                         /\ exec'.dialog = "none"
                         /\ "page_read" \in ensured']_vars

\* after the auto-grant made for tab 1 the provider was switched to the hosted
\* one, and the guard of a step on tab 2 answered from the stored grant
C34_Witness ==
  /\ llmConfig.provider = "openai"
  /\ \E k \in 1..Len(permissions) :
       /\ provenance[Triple(permissions[k].type, permissions[k].origin,
                            permissions[k].tabId)] = "auto"
       /\ permissions[k].tabId = 1
       /\ permissions[k].expiresAt >= now
  /\ \E c \in epLog : c.type = "page_read" /\ c.existing /\ ~c.isLocal /\ c.result
  /\ exec.tabId = 2
  /\ budget.execs = 2

\* C35: a toggle flips the enabled flag of its server and changes nothing else
\* in the registry, sending no request; a second toggle of the same server
\* restores the registry; no two servers of the registry share an id; every
\* tool of the catalog an llmChat request carries belongs to no server that is
\* disabled in the registry at that request, and a dispatch goes to an enabled
\* server that lists the tool.
C35_ToggleAndDisabledTools ==
  [][LET enabledIds(servers) ==
           { servers[k].id : k \in { j \in 1..Len(servers) : servers[j].enabled } }
         disabledIds(servers) ==
           { servers[k].id : k \in { j \in 1..Len(servers) : ~servers[j].enabled } }
         toggled == mcp'.ops = mcp.ops + 1 /\ mcp'.last.kind = "toggle" /\ mcp'.last.ok
     IN  /\ toggled
              => /\ Len(mcp'.servers) = Len(mcp.servers)
                 /\ \A k \in 1..Len(mcp.servers) :
                      mcp'.servers[k] = IF mcp.servers[k].id = mcp'.last.id
                                          THEN [mcp.servers[k] EXCEPT !.enabled = ~@]
                                          ELSE mcp.servers[k]
                 /\ mcp'.wire = << >>
         /\ (toggled /\ mcp.last.kind = "toggle" /\ mcp.last.ok /\ mcp.last.id = mcp'.last.id)
              => mcp'.servers = mcp.before
         /\ \A j, k \in 1..Len(mcp'.servers) :
              mcp'.servers[j].id = mcp'.servers[k].id => j = k
         /\ (mcp.pc = "chat" /\ mcp'.last.kind = "chat" /\ mcp'.ops = mcp.ops + 1)
              => \A t \in mcp.catalog : t.serverId \notin disabledIds(mcp.servers)
         /\ (mcp.pc = "dispatch" /\ mcp'.pc = "chat" /\ mcp'.last.id # "none")
              => /\ mcp'.last.id \in enabledIds(mcp.servers)
                 /\ \E k \in 1..Len(mcp.servers) :
                      /\ mcp.servers[k].id = mcp'.last.id
                      /\ mcp.tool \in mcp.servers[k].tools]_vars

\* C36: every resolution probes <base>/mcp first with an initialize request and
\* the base URL second, the second only when the first did not answer ok; the
\* first probe that answers ok is the endpoint of the requests that follow, and
\* a tools/call request to a server goes to the endpoint resolved when the
\* server was connected; when both probes fail the operation ends in an error
\* and sends no tools/list and no tools/call request.
C36_EndpointResolution ==
  [][LET w == mcp'.wire
         probes == { k \in 1..Len(w) : k <= 2 /\ w[k].method = "initialize"
                                       /\ (k = 2 => w[1].outcome # "ok") }
         answered == { k \in probes : w[k].outcome = "ok" }
         later == { k \in 1..Len(w) : k \notin probes }
     IN  (w # << >> /\ (mcp'.ops = mcp.ops + 1 \/ mcp.pc = "dispatch"))
           => /\ 1 \in probes
              /\ w[1].url[Len(w[1].url)] = "/mcp"
              /\ w[1].outcome # "ok" => (2 \in probes /\ McpUrl(w[2].url) = w[1].url
                                        /\ w[2].url # w[1].url)
              /\ answered # {}
                   => \A k \in later :
                        /\ w[k].url = w[CHOOSE j \in answered : TRUE].url
                        /\ (w[k].method = "tools/call" /\ mcp'.last.id # "none")
                             => w[k].url = mcp.resolved[mcp'.last.id]
              /\ answered = {} => (later = {} /\ ~mcp'.last.ok)]_vars

\* C37: in the session of the background and in the session of the event bus,
\* totalTokens is the sum of tokenCount over dataEntries and contextUsed is at
\* least totalTokens, after every step (addDataEntry, the session resets,
\* clearOrigin and clearSession among them); a clearOrigin leaves exactly the
\* entries of the other origins, in their order, and the audit events as they were.
C37_LedgerTotals ==
  [][/\ \A s \in {sessionState', bus'.state} :
          /\ s.totalTokens = SumTokens(s.dataEntries)
          /\ s.contextUsed >= s.totalTokens
     /\ (bus'.ops = bus.ops + 1 /\ bus'.last = "clearOrigin")
          => /\ bus'.state.dataEntries
                  = SelectSeq(bus.state.dataEntries, LAMBDA e : e.origin # bus'.origin)
             /\ bus'.state.auditEvents = bus.state.auditEvents]_vars

\* clearOrigin has removed an entry and left another, with the audit events kept
C37_Witness ==
  /\ bus.last = "clearOrigin"
  /\ Len(bus.state.dataEntries) >= 1
  /\ bus.state.totalTokens > 0
  /\ Cardinality({ k \in 1..Len(bus.state.auditEvents) :
                     /\ bus.state.auditEvents[k].origin = bus.origin
                     /\ bus.state.auditEvents[k].detail.tokens > 0 }) >= 1

\* C38: every step of a plan generatePlan has returned, from the model's reply
\* or from createFallbackPlan, names a tool of the built-in table, and its
\* requiredPermission and isWriteAction are those the table declares for it.
C38_StepsFollowTable ==
  gen.pc = "returned" =>
    \A k \in 1..Len(gen.plan) :
      /\ IsBuiltIn(gen.plan[k].tool)
      /\ gen.plan[k].requiredPermission = PAGE_TOOLS[gen.plan[k].tool].requiredPermission
      /\ gen.plan[k].isWriteAction = PAGE_TOOLS[gen.plan[k].tool].isWriteAction

\* C39: the step on which runToolCallLoop returns leaves running false and
\* exactly one of three outcomes: answered (the chat just settled with content,
\* finalAnswer is that reply and error is null), exhausted (finalAnswer is the
\* fixed sentinel after the last iteration's tool calls, error null) or errored
\* (error is set and finalAnswer is empty); nothing changes toolCallState after
\* the return, and while the loop is active running is true and finalAnswer and
\* error are empty.
C39_TerminalOutcomes ==
  [][LET tcs == toolCallState'
         answered  == /\ tcs.error = NoError
                      /\ tcs.finalAnswer \in Contents
                      /\ tcs.finalAnswer # Sentinel
                      /\ chats'[Len(chats')].reply = "content"
         exhausted == /\ tcs.error = NoError
                      /\ tcs.finalAnswer = Sentinel
                      /\ chats'[Len(chats')].reply = "toolCalls"
                      /\ loop.i = maxIterations - 1
         errored   == tcs.error # NoError /\ tcs.finalAnswer = ""
     IN  /\ (loop.pc # "done" /\ loop'.pc = "done")
              => /\ ~tcs.running
                 /\ Cardinality({ b \in { << 1, answered >>, << 2, exhausted >>,
                                          << 3, errored >> } : b[2] }) = 1
         /\ loop.pc = "done" => toolCallState' = toolCallState
         /\ loop'.pc \notin {"idle", "done"}
              => /\ tcs.running
                 /\ tcs.finalAnswer = ""
                 /\ tcs.error = NoError]_vars

\* the loop has returned exhausted: five iterations of tool calls, no error
C39_Witness ==
  /\ loop.pc = "done"
  /\ ~toolCallState.running
  /\ toolCallState.finalAnswer = Sentinel
  /\ toolCallState.error = NoError
  /\ Len(SelectSeq(chats, LAMBDA c : c.tools)) = maxIterations
====
